---- MODULE Spec2Model ----
(***************************************************************************)
(* A model of qadx: the HTTP session of src/src/network_session.cpp, the   *)
(* endpoint table of src/src/endpoint.cpp and include/endpoint.hpp, and    *)
(* the input-event writer and input backends (backends/input/common.cpp,   *)
(* evdev.hpp, uinput.hpp, kept here as src/unnamed/part_010 and part_004), *)
(* the WebSocket server of src/include/websocket_server.hpp, the KMS       *)
(* screen backend of src/src/backends/screen/kms.cpp, the discovery of the *)
(* input devices (src/unnamed/part_009) and the acceptor of                *)
(* src/src/server.cpp.                                                     *)
(***************************************************************************)
EXTENDS Integers, Sequences, FiniteSets, TLC

VARIABLES
  evt,        \* harness of the input-event writer and of the device
              \* discovery: the call and its result
  build,      \* "http": src/src/network_session.cpp; "ws": the revision with
              \* the WebSocket upgrade (src/unnamed/part_008, second file)
  backend,    \* m_rt_arguments.input_backend: "evdev" or "uinput"
  devices,    \* m_rt_arguments.devices: the device table, <<>> when absent
  open_fds,   \* the descriptors of the process that are open
  accepting,  \* the async_accept operations of the server that are pending
  sessions,   \* sessions created, one per accepted socket
  sock,       \* the socket of the first session: "none", "open" or "closed"
  pending,    \* asynchronous operations in flight on that socket, per kind
  awaiting,   \* the client of that socket waits for the response to a request
  last,       \* what the last completion handler did
  proc,       \* "running", or "crashed" once the process has trapped
  ws,         \* the WebSocket server a session handed its socket to
  drm,        \* the KMS screen backend: the DRM objects held, the regions
              \* mapped, the last call and what it returned
  files       \* the image files in the temporary directory: those that
              \* exist, and those a send_file is streaming

vars == <<evt, build, backend, devices, open_fds, accepting, sessions, sock,
          pending, awaiting, last, proc, ws, drm, files>>

sessionVars == <<build, backend, devices, open_fds, accepting, sessions, sock,
                 pending, awaiting, last, proc, ws, drm, files>>

----------------------------------------------------------------------------
(* Bounds of the model *)

MaxCoord == 2       \* coordinates range over 0..MaxCoord
MaxVelocity == 5    \* swipe velocities range over -1..MaxVelocity
MaxDuration == 1    \* touch durations range over 0..MaxDuration
MaxFailAt == 12     \* the failing write(2) call is one of 1..MaxFailAt, or none
MaxIoFail == 2      \* in a request the failing write(2) is one of 1..MaxIoFail
MaxPending == 2     \* asynchronous operations in flight at once
MaxSessions == 1    \* sockets accepted
MaxWsFrames == 2    \* frames a WebSocket client sends
MaxCrtcs == 2       \* CRTCs of a DRM card
MaxFiles == 1       \* image files in the temporary directory
MaxBlocks == 2      \* input devices of /proc/bus/input/devices
MaxFlips == 2       \* page-flip events the streamer handles

----------------------------------------------------------------------------
(* Program constants *)

BUTTON_DOWN == 1
BUTTON_UP == 0
TouchTrackingId == 100
SwipePressure == 50
SwipeMajorStart == 2
SwipeStepSleepMs == 500
TextKeySleepMs == 1000

----------------------------------------------------------------------------
(* write(2) on a descriptor.  An io state st holds the records written so  *)
(* far (log), the number of write calls made (calls), the call that fails  *)
(* (failAt, 0 for none) and the descriptors that are open (open).  A call  *)
(* returns [ok, st].                                                       *)

Rec(fd, type, code, value) ==
  [fd |-> fd, type |-> type, code |-> code, value |-> value]

Sleep(unit, n) == [fd |-> -1, type |-> "SLEEP", code |-> unit, value |-> n]

\* div0 is what an integer division by zero does on the build: "trap" (the
\* process is killed by SIGFPE) or "zero" (the quotient is 0)
IoState(open, failAt, div0) ==
  [log |-> <<>>, calls |-> 0, failAt |-> failAt, open |-> open,
   div0 |-> div0, trap |-> FALSE]

write(fd, rec, st) ==
  LET n == st.calls + 1
      good == fd \in st.open /\ n # st.failAt
  IN  [ok |-> good,
       st |-> [st EXCEPT !.calls = n,
                         !.log = IF good THEN Append(@, rec) ELSE @]]

sleep_for(unit, n, st) ==
  [ok |-> TRUE, st |-> [st EXCEPT !.log = Append(@, Sleep(unit, n))]]

\* a && b of the source: b runs only when a returned true
AndThen(r, F(_)) == IF r.ok THEN F(r.st) ELSE r

Ok(st) == [ok |-> TRUE, st |-> st]

----------------------------------------------------------------------------
(* The input-event writer, backends/input/common.cpp *)

send_syn_event(fd, st) == write(fd, Rec(fd, "EV_SYN", "SYN_REPORT", 0), st)

send_button_event(value, fd, st) ==
  write(fd, Rec(fd, "EV_KEY", "BTN_TOUCH", value), st)

\* send_key_event without the release of the key
send_key_event_press_only(key, fd, st) ==
  write(fd, Rec(fd, "EV_KEY", key, 1), st)

send_key_event(key, fd, st) ==
  AndThen(write(fd, Rec(fd, "EV_KEY", key, 1), st),
          LAMBDA s: write(fd, Rec(fd, "EV_KEY", key, 0), s))

send_pressure_event(value, fd, st) ==
  write(fd, Rec(fd, "EV_ABS", "ABS_MT_PRESSURE", value), st)

send_major_event(value, fd, st) ==
  AndThen(write(fd, Rec(fd, "EV_ABS", "ABS_MT_TOUCH_MAJOR", value), st),
          LAMBDA s: write(fd, Rec(fd, "EV_ABS", "ABS_MT_WIDTH_MAJOR", value), s))

send_position_event_abs(x, y, fd, st) ==
  AndThen(write(fd, Rec(fd, "EV_ABS", "ABS_X", x), st),
          LAMBDA s: write(fd, Rec(fd, "EV_ABS", "ABS_Y", y), s))

send_position_event_mt(x, y, fd, st) ==
  AndThen(write(fd, Rec(fd, "EV_ABS", "ABS_MT_POSITION_X", x), st),
          LAMBDA s: write(fd, Rec(fd, "EV_ABS", "ABS_MT_POSITION_Y", y), s))

send_tracking_event(value, fd, st) ==
  write(fd, Rec(fd, "EV_ABS", "ABS_MT_TRACKING_ID", value), st)

send_swipe_header(major_value, pressure, fd, st) ==
  AndThen(send_major_event(major_value, fd, st),
          LAMBDA s: send_pressure_event(pressure, fd, s))

send_swipe_footer(fd, st) ==
  AndThen(send_major_event(0, fd, st), LAMBDA s1:
  AndThen(send_pressure_event(0, fd, s1), LAMBDA s2:
  AndThen(send_tracking_event(-1, fd, s2), LAMBDA s3:
  AndThen(send_button_event(BUTTON_UP, fd, s3), LAMBDA s4:
          send_syn_event(fd, s4)))))

\* TouchPress without the SYN_REPORT that commits the press
TouchPress_uncommitted(x, y, fd, st) ==
  AndThen(send_tracking_event(TouchTrackingId, fd, st), LAMBDA s1:
  AndThen(send_position_event_mt(x, y, fd, s1), LAMBDA s2:
  AndThen(send_button_event(BUTTON_DOWN, fd, s2), LAMBDA s3:
          send_position_event_abs(x, y, fd, s3))))

\* the press half of send_touch, up to the SYN_REPORT that commits it
TouchPress(x, y, fd, st) ==
  AndThen(send_tracking_event(TouchTrackingId, fd, st), LAMBDA s1:
  AndThen(send_position_event_mt(x, y, fd, s1), LAMBDA s2:
  AndThen(send_button_event(BUTTON_DOWN, fd, s2), LAMBDA s3:
  AndThen(send_position_event_abs(x, y, fd, s3), LAMBDA s4:
          send_syn_event(fd, s4)))))

\* the release half of send_touch
TouchRelease(fd, st) ==
  AndThen(send_tracking_event(-1, fd, st), LAMBDA s1:
  AndThen(send_button_event(BUTTON_UP, fd, s1), LAMBDA s2:
          send_syn_event(fd, s2)))

send_touch(x, y, duration, fd, st) ==
  LET success == TouchPress(x, y, fd, st)
  IN  IF ~success.ok THEN success
      ELSE LET slept == IF duration > 0
                          THEN sleep_for("s", duration, success.st).st
                          ELSE success.st
           IN  TouchRelease(fd, slept)

\* a division that rounds the quotient away from zero
TruncDiv_away(a, b) ==
  LET abs_a == IF a >= 0 THEN a ELSE -a
      abs_b == IF b > 0 THEN b ELSE -b
      q == (abs_a + abs_b - 1) \div abs_b
  IN  IF (a >= 0) = (b > 0) THEN q ELSE -q

\* integer division of C++: the quotient is truncated toward zero
TruncDiv(a, b) ==
  IF (a >= 0) = (b > 0) THEN (IF a >= 0 THEN a ELSE -a) \div (IF b > 0 THEN b ELSE -b)
  ELSE -((IF a >= 0 THEN a ELSE -a) \div (IF b > 0 THEN b ELSE -b))

\* SwipeStep with ++major_value in place of major_value++
SwipeStep_preincrement(major_value, x, y, fd, st) ==
  AndThen(send_major_event(major_value + 1, fd, st), LAMBDA s1:
  AndThen(send_pressure_event(SwipePressure, fd, s1), LAMBDA s2:
  AndThen(send_tracking_event(TouchTrackingId, fd, s2), LAMBDA s3:
  AndThen(send_position_event_mt(x, y, fd, s3), LAMBDA s4:
          send_syn_event(fd, s4)))))

\* one iteration of the loop of send_swipe, without the sleep
SwipeStep(major_value, x, y, fd, st) ==
  AndThen(send_major_event(major_value, fd, st), LAMBDA s1:
  AndThen(send_pressure_event(SwipePressure, fd, s1), LAMBDA s2:
  AndThen(send_tracking_event(TouchTrackingId, fd, s2), LAMBDA s3:
  AndThen(send_position_event_mt(x, y, fd, s3), LAMBDA s4:
          send_syn_event(fd, s4)))))

\* for (int i = 0; i < v; ++i) { ... } of send_swipe; major is major_value
RECURSIVE SwipeLoop(_, _, _, _, _, _, _, _, _)
SwipeLoop(i, v, x, y, steps_x, steps_y, major, fd, st) ==
  IF i >= v THEN [ok |-> TRUE, st |-> st, major |-> major]
  ELSE LET success == SwipeStep(major, x, y, fd, st)
       IN  IF ~success.ok
             THEN [ok |-> FALSE, st |-> success.st, major |-> major + 1]
             ELSE SwipeLoop(i + 1, v, x + steps_x, y + steps_y,
                            steps_x, steps_y, major + 1, fd,
                            sleep_for("ms", SwipeStepSleepMs, success.st).st)

\* SwipeFinal with the last position left to the footer's SYN_REPORT
SwipeFinal_one_syn(major_value, x2, y2, fd, st) ==
  AndThen(send_major_event(major_value, fd, st), LAMBDA s1:
  AndThen(send_pressure_event(SwipePressure, fd, s1), LAMBDA s2:
  AndThen(send_position_event_mt(x2, y2, fd, s2), LAMBDA s3:
          send_swipe_footer(fd, s3))))

\* the last position and the footer of send_swipe
SwipeFinal(major_value, x2, y2, fd, st) ==
  AndThen(send_major_event(major_value, fd, st), LAMBDA s1:
  AndThen(send_pressure_event(SwipePressure, fd, s1), LAMBDA s2:
  AndThen(send_position_event_mt(x2, y2, fd, s2), LAMBDA s3:
  AndThen(send_syn_event(fd, s3), LAMBDA s4:
          send_swipe_footer(fd, s4)))))

\* the header of send_swipe with the first position, committed by a SYN_REPORT
SwipeBegin(x, y, fd, st) ==
  AndThen(send_swipe_header(SwipeMajorStart, SwipePressure, fd, st), LAMBDA s1:
  AndThen(send_position_event_mt(x, y, fd, s1), LAMBDA s2:
  AndThen(send_tracking_event(TouchTrackingId, fd, s2), LAMBDA s3:
  AndThen(send_button_event(BUTTON_DOWN, fd, s3), LAMBDA s4:
          send_syn_event(fd, s4)))))

send_swipe(x, y, x2, y2, v, fd, st) ==
  IF v = 0 /\ st.div0 = "trap"
    THEN [ok |-> FALSE, st |-> [st EXCEPT !.trap = TRUE]]
  ELSE
    LET steps_y == IF v = 0 THEN 0 ELSE TruncDiv(y - y2, v) * (-1)
        steps_x == IF v = 0 THEN 0 ELSE TruncDiv(x - x2, v) * (-1)
        success == SwipeBegin(x, y, fd, st)
    IN  IF ~success.ok THEN success
        ELSE LET loop == SwipeLoop(0, v, x, y, steps_x, steps_y,
                                   SwipeMajorStart, fd, success.st)
             IN  IF ~loop.ok THEN [ok |-> FALSE, st |-> loop.st]
                 ELSE SwipeFinal(loop.major, x2, y2, fd, loop.st)

\* std::all_of over key_codes of send_text_event
RECURSIVE send_text_event(_, _, _)
send_text_event(key_codes, fd, st) ==
  IF key_codes = <<>> THEN Ok(st)
  ELSE LET r == AndThen(send_key_event(Head(key_codes), fd, st),
                        LAMBDA s: send_syn_event(fd, s))
       IN  IF ~r.ok THEN r
           ELSE send_text_event(Tail(key_codes), fd,
                                sleep_for("ms", TextKeySleepMs, r.st).st)

----------------------------------------------------------------------------
(* A harness for the input-event writer: the initial state draws a call    *)
(* and the way write(2) behaves, the action makes the call.                *)

EvtFds == {3, 4}
Coords == 0..MaxCoord
Div0Outcomes == {"trap", "zero"}

EvtCall(op, x, y, x2, y2, v, duration, fd, failAt, div0) ==
  [pc |-> "call", op |-> op, x |-> x, y |-> y, x2 |-> x2, y2 |-> y2, v |-> v,
   duration |-> duration, fd |-> fd, failAt |-> failAt, div0 |-> div0,
   ok |-> FALSE, trap |-> FALSE, calls |-> 0, log |-> <<>>]

EvtCalls ==
  { EvtCall("touch", x, y, 0, 0, 0, d, fd, f, "trap") :
      x \in Coords, y \in Coords, d \in 0..MaxDuration, fd \in EvtFds,
      f \in 0..MaxFailAt }
  \cup
  { EvtCall("swipe", c[1], c[2], c[3], c[4], v, 0, fd, f, z) :
      c \in Coords \X Coords \X Coords \X Coords, v \in (-1)..MaxVelocity,
      fd \in EvtFds, f \in 0..MaxFailAt, z \in Div0Outcomes }

EvtIdle == [pc |-> "off"]

\* no socket was handed to a WebSocket server
WsOff == [pc |-> "off"]

\* a temporary directory without image files
NoFiles == [exist |-> {}, streaming |-> {}]

\* the screen backend before its first call: no DRM object held, no region
\* mapped
DrmIdle == [objects |-> {}, maps |-> {}, call |-> [op |-> "none"], ret |-> "none"]

EvtReturn(r) ==
  [evt EXCEPT !.pc = "done", !.ok = r.ok, !.trap = r.st.trap,
              !.calls = r.st.calls, !.log = r.st.log]

evt_send_touch ==
  /\ evt.pc = "call" /\ evt.op = "touch"
  /\ evt' = EvtReturn(send_touch(evt.x, evt.y, evt.duration, evt.fd,
                                 IoState(EvtFds, evt.failAt, evt.div0)))
  /\ UNCHANGED sessionVars

evt_send_swipe ==
  /\ evt.pc = "call" /\ evt.op = "swipe"
  /\ evt' = EvtReturn(send_swipe(evt.x, evt.y, evt.x2, evt.y2, evt.v, evt.fd,
                                 IoState(EvtFds, evt.failAt, evt.div0)))
  /\ UNCHANGED sessionVars

SessionOff ==
  /\ build = "http" /\ backend = "evdev" /\ devices = <<>> /\ open_fds = EvtFds
  /\ accepting = 0 /\ sessions = 0 /\ sock = "none"
  /\ pending = <<>> /\ awaiting = FALSE
  /\ last = [h |-> "none"] /\ proc = "running"
  /\ ws = WsOff
  /\ drm = DrmIdle
  /\ files = NoFiles

EvtInit == evt \in EvtCalls /\ SessionOff

EvtNext == evt_send_touch \/ evt_send_swipe

SpecEvt == EvtInit /\ [][EvtNext]_vars

\* no write(2) of the call failed
EvtNoWriteFailed == evt.failAt = 0 \/ evt.failAt > evt.calls

Count(seq, P(_)) == Cardinality({i \in DOMAIN seq : P(seq[i])})

IsSyn(r) == r.type = "EV_SYN" /\ r.code = "SYN_REPORT"


----------------------------------------------------------------------------
(* Strings are sequences of characters. *)

S_move == <<"/", "m", "o", "v", "e">>
S_button == <<"/", "b", "u", "t", "t", "o", "n">>
S_touch == <<"/", "t", "o", "u", "c", "h">>
S_swipe == <<"/", "s", "w", "i", "p", "e">>
S_key == <<"/", "k", "e", "y">>
S_text == <<"/", "t", "e", "x", "t">>
S_screen == <<"/", "s", "c", "r", "e", "e", "n">>
S_screen_special == <<"/", "s", "c", "r", "e", "e", "n", "/", "{", "s", "c", "r", "e", "e", "n", "_", "n", "u", "m", "b", "e", "r", "}">>
S_screen_number == <<"s", "c", "r", "e", "e", "n", "_", "n", "u", "m", "b", "e", "r">>
S_42 == <<"4", "2">>
S_43 == <<"4", "3">>
S_nope == <<"/", "n", "o", "p", "e">>
S_x1 == <<"x", "=", "1">>


RECURSIVE Find(_, _, _)
\* std::string::find_first_of(ch, from): the first index >= from, 0 for npos
Find(s, ch, from) ==
  IF from > Len(s) THEN 0
  ELSE IF s[from] = ch THEN from ELSE Find(s, ch, from + 1)

\* while (boost::ends_with(s, "/")) s.pop_back();
RECURSIVE pop_trailing_slashes(_)
pop_trailing_slashes(s) ==
  IF s # <<>> /\ s[Len(s)] = "/" THEN pop_trailing_slashes(SubSeq(s, 1, Len(s) - 1))
  ELSE s

starts_with(s, p) == Len(p) <= Len(s) /\ SubSeq(s, 1, Len(p)) = p

ends_with(s, p) == Len(p) <= Len(s) /\ SubSeq(s, Len(s) - Len(p) + 1, Len(s)) = p

\* the positions at which p occurs in s
Occurrences(s, p) ==
  {i \in 1..(Len(s) - Len(p) + 1) : SubSeq(s, i, i + Len(p) - 1) = p}

Least(S) == CHOOSE i \in S : \A j \in S : i <= j
Greatest(S) == CHOOSE i \in S : \A j \in S : i >= j

EraseAt(s, i, n) == SubSeq(s, 1, i - 1) \o SubSeq(s, i + n, Len(s))

\* boost::erase_first and boost::erase_last
erase_first(s, p) ==
  IF p = <<>> \/ Occurrences(s, p) = {} THEN s
  ELSE EraseAt(s, Least(Occurrences(s, p)), Len(p))

erase_last(s, p) ==
  IF p = <<>> \/ Occurrences(s, p) = {} THEN s
  ELSE EraseAt(s, Greatest(Occurrences(s, p)), Len(p))

\* boost::split on one character, token_compress_off: every separator ends a
\* token, so the empty string yields one empty token
RECURSIVE split(_, _)
split(s, ch) ==
  LET i == Find(s, ch, 1)
  IN  IF i = 0 THEN <<s>>
      ELSE <<SubSeq(s, 1, i - 1)>> \o split(SubSeq(s, i + 1, Len(s)), ch)

\* utils::split_string_view (string_utils.cpp): the tokens between the
\* separators, without a last token that is empty
split_string_view(s, ch) ==
  LET t == split(s, ch)
  IN  IF Len(t) > 1 /\ t[Len(t)] = <<>> THEN SubSeq(t, 1, Len(t) - 1) ELSE t

HexPairs == << <<"2", "F", "/">>, <<"3", "F", "?">>, <<"3", "D", "=">> >>

\* utils::decode_url (string_utils.cpp): %XY becomes the character of code XY
RECURSIVE decode_url(_)
decode_url(s) ==
  IF s = <<>> THEN <<>>
  ELSE IF /\ s[1] = "%" /\ Len(s) >= 3
          /\ \E k \in DOMAIN HexPairs : HexPairs[k][1] = s[2] /\ HexPairs[k][2] = s[3]
    THEN LET k == CHOOSE k \in DOMAIN HexPairs :
                    HexPairs[k][1] = s[2] /\ HexPairs[k][2] = s[3]
         IN  <<HexPairs[k][3]>> \o decode_url(SubSeq(s, 4, Len(s)))
    ELSE <<s[1]>> \o decode_url(Tail(s))

\* utils::trim_copy (string_utils.cpp): without the blanks at both ends
RECURSIVE trim_copy(_)
trim_copy(s) ==
  IF s # <<>> /\ s[1] = " " THEN trim_copy(Tail(s))
  ELSE IF s # <<>> /\ s[Len(s)] = " " THEN trim_copy(SubSeq(s, 1, Len(s) - 1))
  ELSE s

----------------------------------------------------------------------------
(* The endpoint table, include/endpoint.hpp and src/endpoint.cpp *)

\* rule_t: the verbs of a route and the name of its callback
rule_t(cb, verbs) == [verbs |-> verbs, route_callback |-> cb]

\* endpoint_t::add_endpoint: m is m_endpoints, a set of <<route, rule>>; a
\* route that does not begin with '/' is refused, and emplace keeps the rule
\* of a route that is already present
add_endpoint(m, route, cb, verbs) ==
  IF route = <<>> \/ route[1] # "/" THEN m
  ELSE LET r == pop_trailing_slashes(route)
       IN  IF \E e \in m : e[1] = r THEN m
           ELSE m \cup {<<r, rule_t(cb, verbs)>>}

\* the do-while of construct_special_placeholder: the names of the
\* placeholders from the '{' at index on; [ok, names, last] where last is
\* end_of_placeholder
RECURSIVE PlaceholderNames(_, _, _)
PlaceholderNames(route, index, names) ==
  LET end_of_placeholder == Find(route, "}", index)
      name == trim_copy(SubSeq(route, index + 1, end_of_placeholder - 1))
      from_pos == end_of_placeholder + 1
      next == Find(route, "{", from_pos)
  IN  IF end_of_placeholder = 0 \/ name = <<>>
        THEN [ok |-> FALSE, names |-> names, last |-> 0]
      ELSE IF from_pos > Len(route) \/ next = 0
        THEN [ok |-> TRUE, names |-> Append(names, name),
              last |-> end_of_placeholder]
      ELSE IF route[next - 1] # "/"
        THEN [ok |-> FALSE, names |-> names, last |-> 0]
      ELSE PlaceholderNames(route, next, Append(names, name))

\* endpoint_t::add_special_endpoint with construct_special_placeholder: m is
\* m_specialEndpoints, a set of <<prefix, placeholder>>
add_special_endpoint(m, route, cb, verbs) ==
  LET index == Find(route, "{", 1)
      prefix == SubSeq(route, 1, index - 1)
      p == PlaceholderNames(route, index, <<>>)
      suffix == pop_trailing_slashes(SubSeq(route, p.last + 1, Len(route)))
  IN  IF route = <<>> \/ route[1] # "/" \/ index = 0 \/ index = 1 THEN m
      ELSE IF trim_copy(prefix) = <<>> \/ trim_copy(prefix) = <<"/">> THEN m
      ELSE IF ~p.ok \/ (\E e \in m : e[1] = prefix) THEN m
      ELSE m \cup {<<prefix, [placeholders |-> p.names, suffix |-> suffix,
                              rule |-> rule_t(cb, verbs)]>>}

\* session_t::add_endpoint_interfaces
m_endpoints ==
  LET m1 == add_endpoint({}, S_move, "move_mouse_request_handler", <<"POST">>)
      m2 == add_endpoint(m1, S_button, "button_request_handler", <<"POST">>)
      m3 == add_endpoint(m2, S_touch, "touch_request_handler", <<"POST">>)
      m4 == add_endpoint(m3, S_swipe, "swipe_request_handler", <<"POST">>)
      m5 == add_endpoint(m4, S_key, "key_request_handler", <<"POST">>)
      m6 == add_endpoint(m5, S_text, "text_request_handler", <<"POST">>)
  IN  add_endpoint(m6, S_screen, "screen_request_handler", <<"GET">>)

m_specialEndpoints ==
  add_special_endpoint({}, S_screen_special, "screenshot_request_handler",
                       <<"GET">>)

\* endpoint_t::get_rules: std::map::find on the exact table
get_rules(target) ==
  IF \E e \in m_endpoints : e[1] = target
    THEN [found |-> TRUE, rule |-> (CHOOSE e \in m_endpoints : e[1] = target)[2]]
    ELSE [found |-> FALSE]


\* while (this_target.back() == '/') this_target.pop_back(); of
pop_back_slashes_kept(s) == [s |-> s, ub |-> s = <<>>]

\* get_special_rules: [s, ub], where ub says that back() was called on an
\* empty string, which is undefined behaviour
RECURSIVE pop_back_slashes(_)
pop_back_slashes(s) ==
  IF s = <<>> THEN [s |-> s, ub |-> TRUE]
  ELSE IF s[Len(s)] = "/" THEN pop_back_slashes(SubSeq(s, 1, Len(s) - 1))
  ELSE [s |-> s, ub |-> FALSE]

\* the body of the loop of get_special_rules for one entry of the table
SpecialMatch(this_target, e) ==
  LET prefix == e[1]
      placeholder == e[2]
      t1 == erase_first(this_target, prefix)
      okSuffix == placeholder.suffix = <<>> \/ ends_with(t1, placeholder.suffix)
      t2 == IF placeholder.suffix = <<>> THEN t1
            ELSE erase_last(t1, placeholder.suffix)
      split_result == split(t2, "/")
  IN  IF starts_with(this_target, prefix) /\ okSuffix
         /\ Len(split_result) = Len(placeholder.placeholders)
        THEN [found |-> TRUE, rule |-> placeholder.rule,
              placeholders |->
                [i \in DOMAIN placeholder.placeholders |->
                   [key |-> placeholder.placeholders[i],
                    value |-> split_result[i]]]]
        ELSE [found |-> FALSE]

\* endpoint_t::get_special_rules.  An empty string at back() is undefined
\* behaviour: on_ub is what the build makes of it, "trap" (the process dies)
\* or "benign" (the loop ends on the empty string).  The table is a std::map
\* and is scanned in key order; it holds one prefix.
get_special_rules(target, on_ub) ==
  LET popped == pop_back_slashes(target)
      hits == {e \in m_specialEndpoints : SpecialMatch(popped.s, e).found}
  IN  IF popped.ub /\ on_ub = "trap" THEN [found |-> FALSE, trap |-> TRUE]
      ELSE IF hits = {} THEN [found |-> FALSE, trap |-> FALSE]
      ELSE [trap |-> FALSE] @@ SpecialMatch(popped.s, CHOOSE e \in hits : TRUE)

----------------------------------------------------------------------------
(* Responses of the session, src/network_session.cpp *)

\* a response handed to async_write: via is the function that starts the
\* write, close says that the completion shuts the socket down
Response(via, status, message, allow) ==
  [via |-> via, status |-> status, message |-> message, allow |-> allow,
   close |-> FALSE]

not_found == Response("error_handler", 404, "url not found", <<>>)
method_not_allowed == Response("error_handler", 405, "method not allowed", <<>>)
bad_request(message) == Response("error_handler", 400, message, <<>>)
server_error(message) == Response("error_handler", 500, message, <<>>)
json_success(body) == Response("send_response", 200, body, <<>>)

\* session_t::allowed_options: the verbs of the rule, joined by ", "
allowed_options(verbs) ==
  Response("send_response", 200, "",
           [i \in 1..(Len(verbs) - 1) |-> verbs[i]] \o <<verbs[Len(verbs)]>>)

\* url_query_t: a set of <<key, value>> with one value per key
MapHas(m, k) == \E e \in m : e[1] = k
MapGet(m, k) == (CHOOSE e \in m : e[1] = k)[2]
MapEmplace(m, k, v) == IF MapHas(m, k) THEN m ELSE m \cup {<<k, v>>}
MapPut(m, k, v) == {e \in m : e[1] # k} \cup {<<k, v>>}

RECURSIVE EmplaceQueries(_, _)
EmplaceQueries(queries, m) ==
  IF queries = <<>> THEN m
  ELSE LET kv == split_string_view(Head(queries), "=")
       IN  EmplaceQueries(Tail(queries),
                          IF Len(kv) < 2 THEN m ELSE MapEmplace(m, kv[1], kv[2]))

\* session_t::split_optional_queries
split_optional_queries(optional_query) ==
  IF optional_query = <<>> THEN {}
  ELSE EmplaceQueries(split_string_view(optional_query, "&"), {})

RECURSIVE PutPlaceholders(_, _)
PutPlaceholders(placeholders, m) ==
  IF placeholders = <<>> THEN m
  ELSE PutPlaceholders(Tail(placeholders),
                       MapPut(m, Head(placeholders).key, Head(placeholders).value))

\* the verb check of handle_requests for a matched rule: the plan is either a
\* response or the call of the route callback with the query map
RuleDispatch(rule, method, url_query) ==
  IF method = "OPTIONS"
    THEN [kind |-> "respond", response |-> allowed_options(rule.verbs)]
  ELSE IF ~(\E i \in DOMAIN rule.verbs : rule.verbs[i] = method)
    THEN [kind |-> "respond", response |-> method_not_allowed]
  ELSE [kind |-> "call", route_callback |-> rule.route_callback,
        url_query |-> url_query]

\* session_t::handle_requests up to the call of the route callback.  The
\* revision with the WebSocket upgrade strips the '/' at the end of the
\* decoded target first.
handle_requests(request, strip, on_ub) ==
  LET decoded == decode_url(request.target)
      request_target == IF strip THEN pop_trailing_slashes(decoded) ELSE decoded
      parts == split_string_view(request_target, "?")
      target == parts[1]
      query_string == IF Len(parts) > 1 THEN parts[2] ELSE <<>>
      exact == get_rules(target)
      res == get_special_rules(target, on_ub)
  IN  IF request_target = <<>>
        THEN [kind |-> "respond", response |-> not_found]
      ELSE IF exact.found
        THEN RuleDispatch(exact.rule, request.method,
                          split_optional_queries(query_string))
      ELSE IF res.trap THEN [kind |-> "trap"]
      ELSE IF ~res.found THEN [kind |-> "respond", response |-> not_found]
      ELSE RuleDispatch(res.rule, request.method,
                        PutPlaceholders(res.placeholders,
                                        split_optional_queries(query_string)))


----------------------------------------------------------------------------
(* The input backends, backends/input/evdev.hpp and uinput.hpp.  An        *)
(* operation gets the descriptors that are open (fds) and the behaviour of *)
(* the system calls (io: openOk, newFd, failAt, div0) and returns          *)
(*   threw  an exception left the operation                                *)
(*   ok     the value returned, when nothing was thrown                    *)
(*   st     the io state after the operation, with the records written     *)
(*   dev    the descriptor of the device chosen by event, 0 when none      *)
(*   fds    the descriptors that are open after the operation              *)

StdFds == {0, 1, 2}

\* the descriptors open("/dev/uinput") returned in the constructor of
\* uinput_backend_t: keyboard first, then mouse, then the touch device
UinputKeyboardFd == 5
UinputMouseFd == 6
UinputTouchFd == 7

\* the descriptor open("/dev/input/eventN") returns: the lowest one that is
\* free, after the standard streams, the sockets and the uinput devices
NewFd == 8

BackendResult(threw, ok, st, dev, fds) ==
  [threw |-> threw, ok |-> ok, st |-> st, dev |-> dev, fds |-> fds]

\* QAD_CHECK_BOOL_ERR(expression): the macro names expression again in the
\* fprintf of its failure branch, so a failed expression runs a second time
\* before the macro throws
QAD_CHECK_BOOL_ERR(F(_), st) ==
  LET first == F(st)
  IN  IF first.ok THEN [threw |-> FALSE, st |-> first.st]
      ELSE [threw |-> TRUE, st |-> F(first.st).st]

\* the sequences of ev_dev_backend_t on the opened descriptor fd
EvdevOp(c, fd, st) ==
  CASE c.op = "move" ->
         [threw |-> FALSE] @@
         AndThen(send_position_event_mt(c.x, c.y, fd, st),
                 LAMBDA s: send_syn_event(fd, s))
    [] c.op = "button" ->
         LET tracking_event == IF c.value = 0 THEN -1 ELSE TouchTrackingId
         IN  [threw |-> FALSE] @@
             AndThen(send_tracking_event(tracking_event, fd, st), LAMBDA s1:
             AndThen(send_button_event(c.value, fd, s1), LAMBDA s2:
                     send_syn_event(fd, s2)))
    [] c.op = "touch" ->
         \* return send_touch(x, y, duration, event);
         [threw |-> FALSE] @@ send_touch(c.x, c.y, c.duration, c.event, st)
    [] c.op = "swipe" ->
         [threw |-> FALSE] @@ send_swipe(c.x, c.y, c.x2, c.y2, c.v, fd, st)
    [] c.op = "key" ->
         LET chk == QAD_CHECK_BOOL_ERR(LAMBDA s: send_key_event(c.key, fd, s), st)
         IN  IF chk.threw THEN [threw |-> TRUE, ok |-> FALSE, st |-> chk.st]
             ELSE [threw |-> FALSE] @@ send_syn_event(fd, chk.st)
    [] c.op = "text" ->
         LET chk == QAD_CHECK_BOOL_ERR(LAMBDA s: send_text_event(c.text, fd, s), st)
         IN  [threw |-> chk.threw, ok |-> ~chk.threw, st |-> chk.st]

\* a guard that closes fd only when the operation returns
auto_close_fd_t_unless_thrown(r, fd, fds) ==
  BackendResult(r.threw, r.ok, r.st, fd,
                IF fd > 0 /\ ~r.threw THEN fds \ {fd} ELSE fds)

\* ~auto_close_fd_t: of the descriptors fds that are open, fd is closed when
\* the operation that returned r is left, by return or by exception
auto_close_fd_t(r, fd, fds) ==
  BackendResult(r.threw, r.ok, r.st, fd, IF fd > 0 THEN fds \ {fd} ELSE fds)

\* ev_dev_backend_t: create_file_descriptor(event) throws when open fails
ev_dev_backend_t(c, fds, io) ==
  IF ~(io.openOk /\ c.event >= 0)
    THEN BackendResult(TRUE, FALSE, IoState(fds, io.failAt, io.div0), 0, fds)
  ELSE auto_close_fd_t(EvdevOp(c, io.newFd,
                               IoState(fds \cup {io.newFd}, io.failAt, io.div0)),
                       io.newFd, fds \cup {io.newFd})

\* uinput_backend_t::get_uinput_file_descriptor, 0 when it throws
get_uinput_file_descriptor(event) ==
  IF event = 0 THEN UinputMouseFd
  ELSE IF event = 1 THEN UinputKeyboardFd
  ELSE IF event = 2 THEN UinputTouchFd
  ELSE 0

\* the *_impl functions of uinput_backend_t: [ok, st, close], where close says
\* that the operation called close(fd)
UinputOp(c, fd, st) ==
  CASE c.op = "move" ->
         LET r == send_position_event_mt(c.x, c.y, fd, st)
         IN  IF ~r.ok THEN [ok |-> FALSE, st |-> r.st, close |-> TRUE]
             ELSE [close |-> FALSE] @@ send_syn_event(fd, r.st)
    [] c.op = "button" ->
         \* the three records are written to event, not to fd
         LET tracking_event == IF c.value = 0 THEN -1 ELSE TouchTrackingId
             r == AndThen(send_tracking_event(tracking_event, c.event, st),
                          LAMBDA s: send_button_event(c.value, c.event, s))
         IN  IF ~r.ok THEN [ok |-> FALSE, st |-> r.st, close |-> TRUE]
             ELSE [close |-> FALSE] @@ send_syn_event(c.event, r.st)
    [] c.op = "touch" ->
         LET succeed == send_touch(c.x, c.y, c.duration, fd, st)
         IN  [close |-> ~succeed.ok] @@ succeed
    [] c.op = "swipe" ->
         [close |-> FALSE] @@ send_swipe(c.x, c.y, c.x2, c.y2, c.v, fd, st)
    [] c.op = "key" ->
         LET r == send_key_event(c.key, fd, st)
         IN  IF ~r.ok THEN [ok |-> FALSE, st |-> r.st, close |-> TRUE]
             ELSE [close |-> FALSE] @@ send_syn_event(fd, r.st)
    [] c.op = "text" ->
         [close |-> FALSE] @@ send_text_event(c.text, fd, st)

\* what a member of uinput_backend_t returns after its *_impl returned r
UinputReturn(r, fd, fds) ==
  BackendResult(FALSE, r.ok, r.st, fd, IF r.close THEN fds \ {fd} ELSE fds)

uinput_backend_t(c, fds, io) ==
  LET fd == get_uinput_file_descriptor(c.event)
  IN  IF fd = 0
        THEN BackendResult(TRUE, FALSE, IoState(fds, io.failAt, io.div0), 0, fds)
      ELSE UinputReturn(UinputOp(c, fd, IoState(fds, io.failAt, io.div0)),
                        fd, fds)

\* get_input_object(m_rt_arguments)->op(...)
InputCall(which, c, fds, io) ==
  IF which = "evdev" THEN ev_dev_backend_t(c, fds, io)
  ELSE uinput_backend_t(c, fds, io)


----------------------------------------------------------------------------
(* JSON bodies: "malformed" (json::parse throws), a value that is not an   *)
(* object, or an object f from keys to values; a value is an integer, a    *)
(* float (v is its integral part), a string or an array.                   *)

JInt(n) == [t |-> "int", v |-> n, a |-> <<>>]
JFloat(n) == [t |-> "float", v |-> n, a |-> <<>>]
JStr == [t |-> "str", v |-> 0, a |-> <<>>]
JArray(a) == [t |-> "array", v |-> 0, a |-> a]

JObject(f) == [t |-> "object", f |-> f]
JMalformed == [t |-> "malformed", f |-> <<>>]
JNotObject == [t |-> "array", f |-> <<>>]

\* json::get<json::number_integer_t>(): a number converts, anything else throws
IsNumber(val) == val.t \in {"int", "float"}

\* utils::any_element_is_invalid (string_utils.hpp): one of the iterators is
\* json_root.end()
any_element_is_invalid(json_root, keys) ==
  \E i \in DOMAIN keys : keys[i] \notin DOMAIN json_root

\* what each input handler reads: the backend operation, the integer keys it
\* requires, the device kind of the event and the message of its 400
InputHandlers ==
  [move_mouse_request_handler |->
     [op |-> "move", ints |-> <<"x", "y">>, kind |-> "mouse"],
   button_request_handler |->
     [op |-> "button", ints |-> <<"value">>, kind |-> "touchscreen"],
   touch_request_handler |->
     [op |-> "touch", ints |-> <<"x", "y", "duration">>, kind |-> "touchscreen"],
   swipe_request_handler |->
     [op |-> "swipe", ints |-> <<"x", "y", "x2", "y2", "velocity">>,
      kind |-> "mouse"],
   key_request_handler |->
     [op |-> "key", ints |-> <<"key">>, kind |-> "keyboard"],
   text_request_handler |->
     [op |-> "text", ints |-> <<>>, kind |-> "keyboard"]]

IsInputHandler(cb) == cb \in DOMAIN InputHandlers

\* event_id_for that answers 0 when the table has no device of the kind
event_id_for_or_zero(device_list, type) ==
  IF \E i \in DOMAIN device_list : device_list[i].device_type = type
    THEN device_list[CHOOSE i \in DOMAIN device_list :
                       /\ device_list[i].device_type = type
                       /\ \A j \in 1..(i - 1) : device_list[j].device_type # type
                    ].event_number
    ELSE 0

\* event_id_for: the event number of the first device of the kind, else -1
event_id_for(device_list, type) ==
  IF \E i \in DOMAIN device_list : device_list[i].device_type = type
    THEN device_list[CHOOSE i \in DOMAIN device_list :
                       /\ device_list[i].device_type = type
                       /\ \A j \in 1..(i - 1) : device_list[j].device_type # type
                    ].event_number
    ELSE -1

IntAt(json_root, k) == IF k \in DOMAIN json_root THEN json_root[k].v ELSE 0

\* the arguments of the backend call, read from the body
CallOf(h, json_root, event) ==
  [op |-> h.op, event |-> event,
   x |-> IntAt(json_root, "x"), y |-> IntAt(json_root, "y"),
   x2 |-> IntAt(json_root, "x2"), y2 |-> IntAt(json_root, "y2"),
   v |-> IntAt(json_root, "velocity"), duration |-> IntAt(json_root, "duration"),
   value |-> IntAt(json_root, "value"), key |-> IntAt(json_root, "key"),
   text |-> IF "text" \in DOMAIN json_root
              THEN [i \in DOMAIN json_root["text"].a |-> json_root["text"].a[i].v]
              ELSE <<>>]

NoCall == [op |-> "none"]

HandlerResult(writes, call, result) ==
  [writes |-> writes, call |-> call, result |-> result]

\* the response of a successful input request: json_success("OK") in
\* src/network_session.cpp, text_success("OK") in the revision with the
\* WebSocket upgrade
Success(optional) ==
  Response("send_response", 200, IF optional THEN "text:OK" ELSE "json:OK", <<>>)

\* the end of an input handler, from the backend call that returned r: the
\* catch block, the error response and the success response
InputReply(h, cfg, call, r) ==
  IF r.st.trap THEN HandlerResult(<<>>, call, r)
  ELSE IF r.threw
    THEN HandlerResult(<<bad_request("exception")>>, call, r)
  ELSE IF ~r.ok
    THEN IF h.op = "move"
           \* error_handler(...) without return: send_response follows
           THEN HandlerResult(<<server_error("Error"), Success(cfg.optional)>>,
                              call, r)
           ELSE HandlerResult(<<server_error("Error")>>, call, r)
  ELSE HandlerResult(<<Success(cfg.optional)>>, call, r)

\* the try block of an input handler, once the body is validated
InputCalled(h, cfg, fds, io, call) ==
  InputReply(h, cfg, call, InputCall(cfg.backend, call, fds, io))

\* move_mouse_request_handler ... text_request_handler.  cfg holds the input
\* backend, the device table (<<>> when absent) and whether event is
\* optional (FETCH_EVENT_NUMBER); fds are the open descriptors.
InputHandler(cb, request, cfg, fds, io) ==
  LET h == InputHandlers[cb]
      body == request.body
      json_root == body.f
      required == IF h.op = "text" THEN <<"text">> ELSE h.ints
      checked == IF cfg.optional THEN required ELSE required \o <<"event">>
      has_event == "event" \in DOMAIN json_root
      event_id == IF has_event THEN json_root["event"].v
                  ELSE event_id_for(cfg.devices, h.kind)
      numbers == /\ \A i \in DOMAIN h.ints : IsNumber(json_root[h.ints[i]])
                 /\ has_event => IsNumber(json_root["event"])
                 /\ h.op = "text" =>
                      /\ json_root["text"].t = "array"
                      /\ \A i \in DOMAIN json_root["text"].a :
                           IsNumber(json_root["text"].a[i])
  IN  IF body.t # "object"
        THEN HandlerResult(<<bad_request("parse error")>>, NoCall, <<>>)
      ELSE IF any_element_is_invalid(json_root, checked)
        THEN HandlerResult(<<bad_request("not found")>>, NoCall, <<>>)
      ELSE IF ~has_event /\ cfg.devices = <<>>
        THEN HandlerResult(<<bad_request("event is not found")>>, NoCall, <<>>)
      ELSE IF ~numbers
        THEN HandlerResult(<<bad_request("type error")>>, NoCall, <<>>)
      ELSE InputCalled(h, cfg, fds, io, CallOf(h, json_root, event_id))

Digits == {"0", "1", "2", "3", "4", "5", "6", "7", "8", "9"}

\* std::stoi throws unless the string begins with a number
StoiOk(str) ==
  \/ str # <<>> /\ str[1] \in Digits
  \/ Len(str) > 1 /\ str[1] \in {"-", "+"} /\ str[2] \in Digits

ScreenOutcomes == {"ok", "no_screen", "grab_fail", "save_fail", "open_fail"}

\* session_t::screen_request_handler
screen_request_handler(screen) ==
  IF screen = "no_screen"
    THEN HandlerResult(<<server_error("unable to create screen object")>>,
                       NoCall, <<>>)
    ELSE HandlerResult(<<Response("send_response", 200, "list_screens", <<>>)>>,
                       NoCall, <<>>)

\* session_t::send_file
send_file(screen) ==
  IF screen = "save_fail" THEN bad_request("file does not exist")
  ELSE IF screen = "open_fail" THEN server_error("unable to open file specified")
  ELSE Response("send_file", 200, "image", <<>>)

\* session_t::screenshot_request_handler
screenshot_request_handler(optional_query, screen) ==
  HandlerResult(
    << IF screen = "no_screen"
         THEN server_error("unable to create screen object")
       ELSE IF ~MapHas(optional_query, S_screen_number)
         THEN bad_request("invalid screen id")
       ELSE IF ~StoiOk(MapGet(optional_query, S_screen_number))
         THEN bad_request("invalid screen id")
       ELSE IF screen = "grab_fail"
         THEN server_error("unable to get screenshot")
       ELSE send_file(screen) >>,
    NoCall,
    IF screen \in {"no_screen", "grab_fail", "save_fail"}
         \/ ~MapHas(optional_query, S_screen_number)
         \/ ~StoiOk(MapGet(optional_query, S_screen_number))
      THEN "none"
    ELSE IF screen = "open_fail" THEN "left"
    ELSE "streamed")

\* session_t::is_json_request
is_json_request(request) == request.content_type = "application/json"

\* ROUTE_CALLBACK(callback): self->callback(optional_query)
ROUTE_CALLBACK(cb, request, url_query, cfg, fds, env) ==
  IF IsInputHandler(cb) THEN InputHandler(cb, request, cfg, fds, env)
  ELSE IF cb = "screen_request_handler" THEN screen_request_handler(env.screen)
  ELSE screenshot_request_handler(url_query, env.screen)

----------------------------------------------------------------------------
(* The requests a client sends.  A request is its method, its target, its  *)
(* content type and its body.                                              *)

Req(method, target, content_type, body) ==
  [method |-> method, target |-> target, content_type |-> content_type,
   body |-> body, upgrade |-> FALSE]

Methods == {"GET", "POST", "OPTIONS"}

\* a body every input handler accepts
GoodFields ==
  [x |-> JInt(1), y |-> JInt(2), x2 |-> JInt(2), y2 |-> JInt(0),
   velocity |-> JInt(2), duration |-> JInt(0), value |-> JInt(1),
   key |-> JInt(30), text |-> JArray(<<JInt(30), JInt(48)>>),
   event |-> JInt(2)]

GoodBody == JObject(GoodFields)

\* a request that asks for the WebSocket protocol: a GET of HTTP/1.1 with
\* Connection: upgrade and Upgrade: websocket
Upgrade(target) ==
  [Req("GET", target, "application/json", GoodBody) EXCEPT !.upgrade = TRUE]

Without(f, k) == [j \in DOMAIN f \ {k} |-> f[j]]
With(f, k, val) == [j \in DOMAIN f |-> IF j = k THEN val ELSE f[j]]

BasePaths ==
  {S_move, S_button, S_touch, S_swipe, S_key, S_text, S_screen,
   S_screen \o <<"/">> \o S_42, S_screen \o <<"/">> \o S_42 \o <<"/">> \o S_43,
   S_nope}

Slashes == {<<>>, <<"/">>}
Queries == {<<>>, <<"?">> \o S_x1}

\* the paths of the routes with a '/' at the end, a query string or both,
\* the root, and targets with an encoded '/', '?' or digit
Targets ==
  {p \o sl \o q : p \in BasePaths, sl \in Slashes, q \in Queries}
  \cup {<<"/">> \o q : q \in Queries}
  \cup { S_touch \o <<"/", "/">>,
         <<"%", "2", "F">> \o Tail(S_touch),
         S_touch \o <<"%", "2", "F">>,
         S_touch \o <<"%", "3", "F">> \o S_x1,
         S_screen \o <<"/", "%", "3", "4">> }

RouteRequests ==
  {Req(m, t, "application/json", GoodBody) : m \in Methods, t \in Targets}

ContentRequests ==
  {Req("POST", t, "text/plain", GoodBody) :
     t \in {S_move, S_button, S_touch, S_swipe, S_key, S_text}}

\* the bodies that make an input handler take each of its branches
BodiesFor(cb) ==
  LET h == InputHandlers[cb]
      keys == {h.ints[i] : i \in DOMAIN h.ints}
             \cup (IF h.op = "text" THEN {"text"} ELSE {})
  IN  {JMalformed, JNotObject, JObject(Without(GoodFields, "event"))}
      \cup {JObject(With(GoodFields, "event", JInt(e))) : e \in {-1, 0, 1, 3}}
      \cup {JObject(With(GoodFields, "event", JStr))}
      \cup {JObject(Without(GoodFields, k)) : k \in keys}
      \cup {JObject(With(GoodFields, k, JStr)) : k \in keys}
      \cup {JObject(With(GoodFields, k, JFloat(1))) : k \in keys \cap {"x"}}
      \cup {JObject(With(GoodFields, "velocity", JInt(v))) :
              v \in IF h.op = "swipe" THEN {-1, 0, 1} ELSE {}}
      \cup {JObject(With(GoodFields, "duration", JInt(d))) :
              d \in IF h.op = "touch" THEN {1} ELSE {}}
      \cup {JObject(With(GoodFields, "value", JInt(b))) :
              b \in IF h.op = "button" THEN {0} ELSE {}}
      \cup {JObject(With(GoodFields, "text", a)) :
              a \in IF h.op = "text"
                      THEN {JArray(<<>>), JArray(<<JInt(30)>>),
                            JArray(<<JInt(30), JStr>>)}
                      ELSE {}}

InputPaths ==
  [move_mouse_request_handler |-> S_move, button_request_handler |-> S_button,
   touch_request_handler |-> S_touch, swipe_request_handler |-> S_swipe,
   key_request_handler |-> S_key, text_request_handler |-> S_text]

BodyRequests ==
  UNION {{Req("POST", InputPaths[cb], "application/json", b) : b \in BodiesFor(cb)} :
           cb \in DOMAIN InputHandlers}

Requests == RouteRequests \cup ContentRequests \cup BodyRequests

\* the requests during which open(2) or write(2) may fail
PlainRequests ==
  {Req("POST", InputPaths[cb], "application/json", GoodBody) :
     cb \in DOMAIN InputHandlers}

\* the requests of a connection that is followed over several requests: one
\* for each way a request is answered
SessionRequests ==
  PlainRequests
  \cup { Req("GET", S_screen, "application/json", GoodBody),
         Req("GET", S_screen \o <<"/">> \o S_42, "application/json", GoodBody),
         Req("GET", S_nope, "application/json", GoodBody),
         Req("GET", <<"/">>, "application/json", GoodBody),
         Req("OPTIONS", S_touch, "application/json", GoodBody),
         Req("POST", S_swipe, "application/json",
             JObject(With(GoodFields, "velocity", JInt(0)))) }

\* what the system does during one request: whether open(2) succeeds and the
\* descriptor it returns, which write(2) fails (0: none), what the division by
\* zero and the back() of an empty string do, and how the screen backend fares
Env(openOk, failAt, div0, on_ub, screen) ==
  [openOk |-> openOk, newFd |-> NewFd, failAt |-> failAt, div0 |-> div0,
   on_ub |-> on_ub, screen |-> screen]

UbOutcomes == {"benign", "trap"}


----------------------------------------------------------------------------
(* The session: one completion handler per action.  The asynchronous       *)
(* operations in flight are counted per kind:                              *)
(*   read_header  async_read_header, completes in on_header_read           *)
(*   read         async_read, completes in on_data_read                    *)
(*   write        async_write, completes in on_data_written                *)
(*   write_close  async_write of error_handler(response, true), completes  *)
(*                in the lambda that calls shutdown_socket                 *)
(*   write_file   async_write of send_file, completes in the lambda that   *)
(*                removes the file and calls on_data_written               *)

OpKinds == {"read_header", "read", "write", "write_close", "write_file"}

NoPending == [k \in OpKinds |-> 0]

Total(p) ==
  p["read_header"] + p["read"] + p["write"] + p["write_close"] + p["write_file"]

Arm(p, k) == [p EXCEPT ![k] = @ + 1]
Done(p, k) == [p EXCEPT ![k] = @ - 1]

\* the operation a response is written with
WriteKind(response) ==
  IF response.via = "send_file" THEN "write_file"
  ELSE IF response.close THEN "write_close"
  ELSE "write"

RECURSIVE ArmWrites(_, _)
ArmWrites(p, writes) ==
  IF writes = <<>> THEN p
  ELSE ArmWrites(Arm(p, WriteKind(Head(writes))), Tail(writes))

Closing_kept_open(response) == response

\* error_handler(response, true)
Closing(response) == [response EXCEPT !.close = TRUE]

\* a session that reads the one request run() arms a read for, and no other
http_read_data_once(p) ==
  IF sessions = 0 THEN Arm(p, IF build = "http" THEN "read_header" ELSE "read")
  ELSE p

\* session_t::http_read_data
http_read_data(p) == Arm(p, IF build = "http" THEN "read_header" ELSE "read")

\* the error codes a completion is delivered with
ReadErrors(s) ==
  IF s = "open" THEN {"ok", "end_of_stream", "timeout", "body_limit", "other"}
  ELSE {"operation_aborted"}

WriteErrors(s) == IF s = "open" THEN {"ok", "broken_pipe"} ELSE {"operation_aborted"}

Cfg == [backend |-> backend, devices |-> devices, optional |-> build = "ws"]

\* the choices the system has during the request
EnvsOf(request, plan) ==
  LET ubs == IF plan.kind = "trap" THEN UbOutcomes ELSE {"benign"}
      input == plan.kind = "call" /\ IsInputHandler(plan.route_callback)
      plain == input /\ request \in PlainRequests
      evdev == plain /\ backend = "evdev"
      swipe == input /\ plan.route_callback = "swipe_request_handler"
      screen == plan.kind = "call" /\ ~input
  IN  { e \in { Env(o, f, z, u, s) :
                  o \in IF evdev THEN BOOLEAN ELSE {TRUE},
                  f \in IF plain THEN 0..MaxIoFail ELSE {0},
                  z \in IF swipe THEN Div0Outcomes ELSE {"zero"},
                  u \in ubs,
                  s \in IF screen THEN ScreenOutcomes ELSE {"ok"} } :
          e.openOk \/ e.failAt = 0 }

EnvsFor(request) == EnvsOf(request, handle_requests(request, build = "ws", "trap"))

\* what the session shows of a request that handle_requests resolved to plan
\* and whose callback returned hr
Outcome(plan, hr) ==
  LET called == hr.call.op # "none"
  IN  [route_callback |-> IF plan.kind = "call" THEN plan.route_callback ELSE "none",
       url_query |-> IF plan.kind = "call" THEN plan.url_query ELSE {},
       writes |-> hr.writes,
       call |-> hr.call,
       threw |-> called /\ hr.result.threw,
       ok |-> called /\ ~hr.result.threw /\ hr.result.ok,
       dev |-> IF called THEN hr.result.dev ELSE 0,
       log |-> IF called THEN hr.result.st.log ELSE <<>>,
       calls |-> IF called THEN hr.result.st.calls ELSE 0,
       failAt |-> IF called THEN hr.result.st.failAt ELSE 0,
       fds |-> IF called THEN hr.result.fds ELSE open_fds,
       file |-> IF plan.kind = "call"
                   /\ plan.route_callback = "screenshot_request_handler"
                  THEN hr.result ELSE "none",
       trap |-> plan.kind = "trap" \/ (called /\ hr.result.st.trap)]

\* the route callback of the plan, or the response of handle_requests
Routed(plan, request, env) ==
  Outcome(plan,
          IF plan.kind = "call"
            THEN ROUTE_CALLBACK(plan.route_callback, request, plan.url_query,
                                Cfg, open_fds, env)
          ELSE IF plan.kind = "respond"
            THEN HandlerResult(<<plan.response>>, NoCall, <<>>)
          ELSE HandlerResult(<<>>, NoCall, <<>>))

\* handle_requests with the route callback it calls: the responses written,
\* the backend call made and whether the process trapped
Dispatch(request, env) ==
  Routed(handle_requests(request, build = "ws", env.on_ub), request, env)

Handled(h, ec, request, d) ==
  [h |-> h, ec |-> ec, request |-> request, route_callback |-> d.route_callback,
   url_query |-> d.url_query, writes |-> d.writes, call |-> d.call,
   threw |-> d.threw, ok |-> d.ok, dev |-> d.dev, log |-> d.log,
   calls |-> d.calls, failAt |-> d.failAt, trap |-> d.trap]

NoDispatch(writes) ==
  [route_callback |-> "none", url_query |-> {}, writes |-> writes,
   call |-> NoCall, threw |-> FALSE, ok |-> FALSE, dev |-> 0, log |-> <<>>,
   calls |-> 0, failAt |-> 0, trap |-> FALSE]

NoRequest == Req("none", <<>>, "none", JMalformed)

\* an accept_connections that arms two async_accept
accept_connections_twice(a) == a + 2

\* server_t::accept_connections: one async_accept on a fresh strand is added
\* to the a that are pending
accept_connections(a) == a + 1

\* server_t::on_connection_accepted: an error leaves the acceptor without a
\* pending accept; otherwise a session is made and run, and accept_connections
\* arms the next accept
on_connection_accepted(ec) ==
  /\ proc = "running" /\ accepting > 0
  /\ IF ec # "ok"
       THEN /\ accepting' = accepting - 1
            /\ UNCHANGED <<sessions, sock, pending>>
       ELSE /\ sessions < MaxSessions
            /\ sessions' = sessions + 1
            /\ accepting' = accept_connections(accepting - 1)
            /\ IF sessions = 0
                 THEN sock' = "open" /\ pending' = http_read_data(NoPending)
                 ELSE UNCHANGED <<sock, pending>>
  /\ last' = Handled("on_connection_accepted", ec, NoRequest, NoDispatch(<<>>))
  /\ UNCHANGED <<evt, drm, files, ws, build, backend, devices, open_fds,
                 awaiting, proc>>

\* session_t::shutdown_socket
shutdown_socket == sock' = "closed"

Frame(got_text, type, body) == [got_text |-> got_text, type |-> type, body |-> body]

NoFrame == Frame(FALSE, "absent", JMalformed)

\* websocket_server_impl_t::run: the session has released its socket to the
\* server and the async_accept of the handshake is pending
WsRun ==
  [pc |-> "handshake", reads |-> 0, writes |-> 0, queue |-> <<>>, wire |-> <<>>,
   frames |-> 0, threw |-> FALSE, h |-> "run", ec |-> "ok", frame |-> NoFrame,
   call |-> NoCall, log |-> <<>>]

\* beast::websocket::is_upgrade in the block of on_data_read that is compiled
\* with QADX_USE_WITH_WEBSOCKET, the WebSocket profile of the ws build
is_upgrade_never(request) == FALSE

is_upgrade(request) == build = "ws" /\ request.upgrade

\* the upgrade branch of on_data_read: release_socket leaves the session
\* without socket, and websocket_server_t::run starts the handshake on it
release_socket(h, p, request) ==
  /\ sock' = "released"
  /\ ws' = WsRun
  /\ pending' = p
  /\ last' = Handled(h, "ok", request, NoDispatch(<<>>))
  /\ UNCHANGED <<open_fds, awaiting, proc, files>>

\* the temporary directory after a screenshot handler: save_image_to_file
\* has made a file with a name of its own unless the handler returned before
\* it or the file could not be made, and send_file streams the file unless
\* it cannot open it
NewFile(f) == Least((1 .. MaxFiles) \ f.exist)

save_image_to_file(file, f) ==
  IF file = "none" THEN f
  ELSE IF file = "left" THEN [f EXCEPT !.exist = @ \cup {NewFile(f)}]
  ELSE [exist |-> f.exist \cup {NewFile(f)},
        streaming |-> f.streaming \cup {NewFile(f)}]

\* std::filesystem::remove(file_path) in the completion lambda of send_file
remove(file_path, f) ==
  [exist |-> f.exist \ {file_path}, streaming |-> f.streaming \ {file_path}]

\* a completion lambda of send_file that leaves the file in place
remove_skipped(file_path, f) == [f EXCEPT !.streaming = @ \ {file_path}]

\* what a handler does once the request is read: handle_requests.  The
\* client does not pipeline: it sends a request once the one before is
\* answered.
Served(h, p, request, d) ==
  /\ ~awaiting
  /\ awaiting' = TRUE
  /\ Total(ArmWrites(p, d.writes)) <= MaxPending
  /\ pending' = ArmWrites(p, d.writes)
  /\ open_fds' = d.fds
  /\ proc' = IF d.trap THEN "crashed" ELSE proc
  /\ last' = Handled(h, "ok", request, d)
  /\ d.file # "none" => Cardinality(files.exist) < MaxFiles
  /\ files' = save_image_to_file(d.file, files)
  /\ UNCHANGED <<sock, ws>>

Serve(h, p, requests) ==
  \E request \in requests :
    IF is_upgrade(request)
      THEN ~awaiting /\ release_socket(h, p, request)
      ELSE \E env \in EnvsFor(request) :
             Served(h, p, request, Dispatch(request, env))

\* the error branches of a read completion
ReadFailed(h, ec, p, silent) ==
  /\ IF ec \in silent
       THEN /\ shutdown_socket
            /\ pending' = p
            /\ last' = Handled(h, ec, NoRequest, NoDispatch(<<>>))
       ELSE LET writes == <<Closing(server_error(ec))>>
            IN  /\ pending' = ArmWrites(p, writes)
                /\ last' = Handled(h, ec, NoRequest, NoDispatch(writes))
                /\ UNCHANGED sock
  /\ UNCHANGED <<open_fds, awaiting, proc>>

\* session_t::on_header_read (src/network_session.cpp)
on_header_read(ec) ==
  /\ proc = "running" /\ pending["read_header"] > 0
  /\ ec \in ReadErrors(sock) \ {"body_limit"}
  /\ LET p == Done(pending, "read_header")
     IN  IF ec = "ok"
           THEN /\ pending' = Arm(p, "read")
                /\ last' = Handled("on_header_read", ec, NoRequest, NoDispatch(<<>>))
                /\ UNCHANGED <<sock, open_fds, awaiting, proc>>
           ELSE ReadFailed("on_header_read", ec, p, {"end_of_stream", "timeout"})
  /\ UNCHANGED <<evt, drm, files, ws, build, backend, devices, accepting,
                 sessions>>

\* session_t::on_data_read.  Beast reports end_of_stream only for a stream
\* that ends before the first octet of a message: the read of the body that
\* follows on_header_read ends with another error (partial_message) instead.
on_data_read(ec, requests) ==
  /\ proc = "running" /\ pending["read"] > 0
  /\ ec \in ReadErrors(sock)
  /\ build = "http" => ec # "end_of_stream"
  /\ LET p == Done(pending, "read")
     IN  IF ec = "ok" THEN Serve("on_data_read", p, requests)
         ELSE /\ ReadFailed("on_data_read", ec, p, {"end_of_stream"})
              /\ UNCHANGED <<ws, files>>
  /\ UNCHANGED <<evt, drm, build, backend, devices, accepting, sessions>>

\* the body of session_t::on_data_written after an operation of kind k
DataWritten(h, k, ec) ==
  /\ proc = "running" /\ pending[k] > 0
  /\ ec \in WriteErrors(sock)
  /\ IF ec # "ok"
       THEN pending' = Done(pending, k) /\ UNCHANGED awaiting
       ELSE /\ awaiting' = FALSE
            /\ pending' = http_read_data(Done(pending, k))
  /\ last' = Handled(h, ec, NoRequest, NoDispatch(<<>>))
  /\ UNCHANGED <<evt, drm, ws, build, backend, devices, open_fds, accepting,
                 sessions, sock, proc>>

\* session_t::on_data_written
on_data_written(ec) ==
  DataWritten("on_data_written", "write", ec) /\ UNCHANGED files

\* the completion lambda of send_file: the file is removed, then
\* on_data_written runs
on_file_written(ec) ==
  /\ DataWritten("on_file_written", "write_file", ec)
  /\ \E file_path \in files.streaming : files' = remove(file_path, files)

\* the completion lambda of error_handler(response, true)
on_error_written(ec) ==
  /\ proc = "running" /\ pending["write_close"] > 0
  /\ ec \in WriteErrors(sock)
  /\ pending' = Done(pending, "write_close")
  /\ shutdown_socket
  /\ last' = Handled("on_error_written", ec, NoRequest, NoDispatch(<<>>))
  /\ UNCHANGED <<evt, drm, files, ws, build, backend, devices, open_fds,
                 accepting, sessions, awaiting, proc>>

\* the strong references to the first session (std::shared_ptr use count):
\* the handler of every operation in flight holds one (bind_front_handler
\* with shared_from_this(), ASYNC_CALLBACK, the completion lambdas), and so
\* does every callback add_endpoint_interfaces stores in the route table of
\* the session itself (ROUTE_CALLBACK captures self = shared_from_this())
use_count ==
  IF sock = "none" THEN 0
  ELSE Total(pending) + Cardinality(m_endpoints)
         + Cardinality(m_specialEndpoints)

UinputDevices ==
  << [event_number |-> 0, relevance |-> 1, device_type |-> "mouse"],
     [event_number |-> 1, relevance |-> 1, device_type |-> "keyboard"],
     [event_number |-> 2, relevance |-> 1, device_type |-> "touchscreen"] >>

\* a table of an evdev system after sort_devices: two touchscreens and a
\* keyboard, no mouse
EvdevDevices ==
  << [event_number |-> 1, relevance |-> 1, device_type |-> "touchscreen"],
     [event_number |-> 3, relevance |-> 1, device_type |-> "keyboard"],
     [event_number |-> 4, relevance |-> 2, device_type |-> "touchscreen"] >>

\* the server after main: a build, the backend and the device table of the
\* runtime arguments, the listening acceptor and no session
Init ==
  /\ evt = EvtIdle
  /\ build \in {"http", "ws"}
  /\ backend \in {"evdev", "uinput"}
  /\ devices \in IF build = "http" THEN {<<>>}
                 ELSE IF backend = "uinput" THEN {UinputDevices}
                 ELSE {<<>>, EvdevDevices}
  /\ open_fds = IF backend = "uinput"
             THEN StdFds \cup {UinputKeyboardFd, UinputMouseFd, UinputTouchFd}
             ELSE StdFds
  /\ accepting = accept_connections(0)
  /\ sessions = 0
  /\ sock = "none"
  /\ pending = NoPending
  /\ awaiting = FALSE
  /\ last = [h |-> "none"]
  /\ proc = "running"
  /\ ws = WsOff
  /\ drm = DrmIdle
  /\ files = NoFiles

Next ==
  \/ \E ec \in {"ok", "too_many_files"} : on_connection_accepted(ec)
  \/ \E ec \in ReadErrors(sock) : on_header_read(ec)
  \/ \E ec \in ReadErrors(sock) : on_data_read(ec, SessionRequests)
  \/ \E ec \in WriteErrors(sock) : on_data_written(ec)
  \/ \E ec \in WriteErrors(sock) : on_file_written(ec)
  \/ \E ec \in WriteErrors(sock) : on_error_written(ec)

Spec == Init /\ [][Next]_vars

\* the way of a connection to its first request, which is any of Requests
DispatchNext ==
  \/ on_connection_accepted("ok")
  \/ on_header_read("ok")
  \/ on_data_read("ok", Requests)

SpecDispatch == Init /\ [][DispatchNext]_vars

----------------------------------------------------------------------------
(* The WebSocket server, include/websocket_server.hpp.  ws holds           *)
(*   pc      "off", "handshake" (async_accept pending) or "open"           *)
(*   reads   async_read operations in flight                               *)
(*   writes  async_write operations in flight                              *)
(*   queue   m_messageQueue                                                *)
(*   wire    the messages written to the client, in order                  *)
(*   frames  frames read from the client                                   *)
(*   threw   an exception left a completion handler                        *)
(*   h, ec, frame  the last completion handler, its error, the frame read  *)
(*   call, log     the backend call of that handler and its records        *)

\* the format string of queue_success_message, {"status": "{}"}
StatusFormat ==
  << "{", "\"", "s", "t", "a", "t", "u", "s", "\"", ":", " ", "\"", "{", "}",
     "\"", "}" >>

\* fmt::format(fmt, arg) from position i on: "{{" and "}}" are braces, "{}"
\* is the argument, and a '{' followed by anything else that does not begin
\* an argument id, or a '}' alone, makes fmt throw format_error
RECURSIVE vformat(_, _, _, _)
vformat(fmt, i, arg, out) ==
  IF i > Len(fmt) THEN [threw |-> FALSE, out |-> out]
  ELSE IF fmt[i] = "{"
    THEN IF i = Len(fmt) THEN [threw |-> TRUE, out |-> out]
         ELSE IF fmt[i + 1] = "{" THEN vformat(fmt, i + 2, arg, Append(out, "{"))
         ELSE IF fmt[i + 1] = "}" THEN vformat(fmt, i + 2, arg, Append(out, arg))
         ELSE [threw |-> TRUE, out |-> out]
  ELSE IF fmt[i] = "}"
    THEN IF i < Len(fmt) /\ fmt[i + 1] = "}"
           THEN vformat(fmt, i + 2, arg, Append(out, "}"))
           ELSE [threw |-> TRUE, out |-> out]
  ELSE vformat(fmt, i + 1, arg, Append(out, fmt[i]))

\* generate_error_message: the dump of {"message": msg, "status": "error"}
generate_error_message(msg) == [status |-> "error", message |-> msg]

read_data(w) == [w EXCEPT !.reads = @ + 1]

\* write_to_wire: the async_write of m_messageQueue.front()
write_to_wire(w) == [w EXCEPT !.writes = @ + 1]

\* send_next_queued_message that starts the write and a read with it
send_next_queued_message_and_read(w) ==
  IF w.queue = <<>> THEN read_data(w) ELSE read_data(write_to_wire(w))

\* send_next_queued_message that reads no more when the queue is empty
send_next_queued_message_or_stop(w) ==
  IF w.queue = <<>> THEN w ELSE write_to_wire(w)

send_next_queued_message(w) ==
  IF w.queue = <<>> THEN read_data(w) ELSE write_to_wire(w)

queue_error_message(error_message, w) ==
  send_next_queued_message(
    [w EXCEPT !.queue = Append(@, generate_error_message(error_message))])

\* the push of queue_success_message once fmt::format returned text
PushFormatted(text, w) ==
  IF text.threw THEN [w EXCEPT !.threw = TRUE]
  ELSE send_next_queued_message([w EXCEPT !.queue = Append(@, text.out)])

queue_success_message(message, w) ==
  PushFormatted(vformat(StatusFormat, 1, message, <<>>), w)

\* error_type_sent: the dump of the object with request, status and message
\* is queued with queue_success_message
error_type_sent(view, w) ==
  queue_success_message(
    [request |-> view, status |-> "error",
     message |-> "unrecognized type in the message sent"], w)

string_to_message(str) ==
  IF str = "swipe" THEN "swipe"
  ELSE IF str = "stream" THEN "screen_stream"
  ELSE IF str = "screens" THEN "screens"
  ELSE IF str = "text" THEN "text"
  ELSE IF str = "key" THEN "key"
  ELSE IF str = "touch" THEN "touch"
  ELSE IF str = "button" THEN "button"
  ELSE "unknown"

\* what a handler of a frame leaves: the server, the open descriptors, the
\* backend call with its records, and whether the process trapped
WsResult(w, fds, call, log, trap) ==
  [w |-> w, fds |-> fds, call |-> call, log |-> log, trap |-> trap]

\* the process_*_message of an input command has the checks, the backend
\* call and the catch block of the HTTP handler of the same command
WsInputHandlers ==
  [button |-> "button_request_handler", touch |-> "touch_request_handler",
   key |-> "key_request_handler", text |-> "text_request_handler",
   swipe |-> "swipe_request_handler"]

\* the end of process_*_message: queue_error_message in the checks, after a
\* false of the backend and in the catch block, queue_success_message else
WsQueued(w, fds, hr) ==
  WsResult(IF hr.writes = <<>> THEN w
           ELSE IF hr.writes[1].status = 200 THEN queue_success_message("OK", w)
           ELSE queue_error_message(hr.writes[1].message, w),
           IF hr.call.op # "none" THEN hr.result.fds ELSE fds,
           hr.call,
           IF hr.call.op # "none" THEN hr.result.st.log ELSE <<>>,
           hr.call.op # "none" /\ hr.result.st.trap)

process_input_message(type, frame, w, cfg, fds, io) ==
  WsQueued(w, fds,
           InputHandler(WsInputHandlers[type], frame,
                        [cfg EXCEPT !.optional = TRUE], fds, io))

process_list_screens_message(w, io) ==
  IF io.screen = "no_screen"
    THEN queue_error_message("unable to create screen object", w)
    ELSE queue_success_message("list_screens", w)

\* the switch of interpret_message; process_screen_stream_message is empty
InterpretType(type, frame, w, cfg, fds, io) ==
  IF type = "unknown"
    THEN WsResult(error_type_sent(frame, w), fds, NoCall, <<>>, FALSE)
  ELSE IF type = "screens"
    THEN WsResult(process_list_screens_message(w, io), fds, NoCall, <<>>, FALSE)
  ELSE IF type = "screen_stream"
    THEN WsResult(w, fds, NoCall, <<>>, FALSE)
  ELSE process_input_message(type, frame, w, cfg, fds, io)

\* a frame is whether it is text, its payload parsed as JSON (body) and
\* what the key "type" of the payload holds: "absent", "not_string" or the
\* string
interpret_message(frame, w, cfg, fds, io) ==
  IF frame.body.t # "object"
    THEN WsResult(queue_error_message("parse error", w), fds, NoCall, <<>>, FALSE)
  ELSE IF frame.type \in {"absent", "not_string"}
    THEN WsResult(queue_error_message("invalid type", w), fds, NoCall, <<>>, FALSE)
  ELSE InterpretType(string_to_message(frame.type), frame, w, cfg, fds, io)

WsTypes == {"swipe", "stream", "screens", "text", "key", "touch", "button", "nope"}

\* the commands whose backend call may meet a failing open(2) or write(2)
WsPlainFrames ==
  {Frame(TRUE, t, GoodBody) : t \in DOMAIN WsInputHandlers}

\* the frames a client sends
WsFrames ==
  {Frame(TRUE, t, GoodBody) : t \in WsTypes \cup {"absent", "not_string"}}
  \cup {Frame(TRUE, t, JObject(Without(GoodFields, "event"))) :
          t \in DOMAIN WsInputHandlers}
  \cup { Frame(TRUE, "button", JObject(Without(GoodFields, "value"))),
         Frame(TRUE, "touch", JObject(With(GoodFields, "x", JStr))),
         Frame(TRUE, "swipe", JObject(With(GoodFields, "velocity", JInt(0)))),
         Frame(TRUE, "absent", JMalformed),
         Frame(TRUE, "absent", JNotObject),
         Frame(FALSE, "absent", JMalformed) }

\* what the system does while a frame is handled
WsEnvsFor(frame) ==
  { e \in { Env(o, f, z, "benign", s) :
              o \in IF frame \in WsPlainFrames /\ backend = "evdev"
                      THEN BOOLEAN ELSE {TRUE},
              f \in IF frame \in WsPlainFrames THEN 0..1 ELSE {0},
              z \in IF frame.type = "swipe" THEN Div0Outcomes ELSE {"zero"},
              s \in IF frame.type = "screens" THEN {"ok", "no_screen"}
                                              ELSE {"ok"} } :
      e.openOk \/ e.failAt = 0 }

WsReadErrors == {"ok", "timeout", "closed", "other"}
WsWriteErrors == {"ok", "other"}

\* websocket_server_impl_t::on_websocket_accepted
on_websocket_accepted(ec) ==
  /\ proc = "running" /\ ws.pc = "handshake"
  /\ ws' = IF ec # "ok"
             THEN [ws EXCEPT !.pc = "open", !.h = "on_websocket_accepted", !.ec = ec]
             ELSE read_data([ws EXCEPT !.pc = "open",
                                       !.h = "on_websocket_accepted", !.ec = ec])
  /\ UNCHANGED <<evt, drm, files, build, backend, devices, open_fds,
                 accepting, sessions, sock, pending, awaiting, last, proc>>

\* the state after a frame was handled with result r
WsHandled(r) ==
  /\ ws' = [r.w EXCEPT !.call = r.call, !.log = r.log]
  /\ open_fds' = r.fds
  /\ proc' = IF r.w.threw \/ r.trap THEN "crashed" ELSE proc

\* websocket_server_impl_t::on_data_read with the server w it runs on
WsDataRead(ec, frame, io, w) ==
  IF ec = "timeout"
    THEN WsHandled(WsResult(send_next_queued_message(w), open_fds, NoCall, <<>>, FALSE))
  ELSE IF ec # "ok"
    THEN WsHandled(WsResult(w, open_fds, NoCall, <<>>, FALSE))
  ELSE IF ~frame.got_text
    THEN WsHandled(WsResult(
           queue_error_message("unacceptable data type sent, only text expected", w),
           open_fds, NoCall, <<>>, FALSE))
  ELSE WsHandled(interpret_message(frame, w, Cfg, open_fds, io))

\* the completion of the async_read of read_data
websocket_on_data_read(ec, frame, io) ==
  /\ proc = "running" /\ ws.pc = "open" /\ ws.reads > 0
  /\ ec = "ok" => ws.frames < MaxWsFrames
  /\ ec # "ok" => frame = NoFrame
  /\ WsDataRead(ec, frame, io,
                [ws EXCEPT !.reads = @ - 1, !.h = "on_data_read", !.ec = ec,
                           !.frame = frame,
                           !.frames = IF ec = "ok" THEN @ + 1 ELSE @])
  /\ UNCHANGED <<evt, drm, files, build, backend, devices, accepting,
                 sessions, sock, pending, awaiting, last>>

\* the completion lambda of write_to_wire: assert(!m_messageQueue.empty()),
\* pop, and read_data unless the write failed
on_wire_written(ec) ==
  /\ proc = "running" /\ ws.pc = "open" /\ ws.writes > 0
  /\ IF ws.queue = <<>>
       THEN /\ proc' = "crashed"
            /\ ws' = [ws EXCEPT !.writes = @ - 1, !.h = "write_to_wire", !.ec = ec]
       ELSE /\ proc' = proc
            /\ ws' = IF ec # "ok"
                       THEN [ws EXCEPT !.writes = @ - 1, !.queue = Tail(@),
                                       !.h = "write_to_wire", !.ec = ec]
                       ELSE read_data(
                              [ws EXCEPT !.writes = @ - 1, !.queue = Tail(@),
                                         !.wire = Append(@, Head(ws.queue)),
                                         !.h = "write_to_wire", !.ec = ec])
  /\ UNCHANGED <<evt, drm, files, build, backend, devices, open_fds,
                 accepting, sessions, sock, pending, awaiting, last>>

WsInit ==
  /\ evt = EvtIdle
  /\ build = "ws"
  /\ backend \in {"evdev", "uinput"}
  /\ devices \in IF backend = "uinput" THEN {UinputDevices}
                 ELSE {<<>>, EvdevDevices}
  /\ open_fds = IF backend = "uinput"
                  THEN StdFds \cup {UinputKeyboardFd, UinputMouseFd, UinputTouchFd}
                  ELSE StdFds
  /\ accepting = accept_connections(0)
  /\ sessions = 1
  /\ sock = "released"
  /\ pending = NoPending
  /\ awaiting = FALSE
  /\ last = [h |-> "none"]
  /\ proc = "running"
  /\ ws = WsRun
  /\ drm = DrmIdle
  /\ files = NoFiles

WsNext ==
  \/ \E ec \in {"ok", "other"} : on_websocket_accepted(ec)
  \/ \E ec \in WsReadErrors : \E frame \in WsFrames \cup {NoFrame} :
       \E io \in WsEnvsFor(frame) : websocket_on_data_read(ec, frame, io)
  \/ \E ec \in WsWriteErrors : on_wire_written(ec)

SpecWs == WsInit /\ [][WsNext]_vars


\* a connection whose client asks for the WebSocket protocol, in its first
\* request or after a touch, and the WebSocket server that takes the socket
UpgradeRequests == {Upgrade(S_screen \o <<"/">> \o S_42)}

FirstRequests ==
  UpgradeRequests \cup {Req("POST", S_touch, "application/json", GoodBody)}

UpgradeNext ==
  \/ \E ec \in {"ok", "too_many_files"} : on_connection_accepted(ec)
  \/ \E ec \in ReadErrors(sock) : on_header_read(ec)
  \/ \E ec \in ReadErrors(sock) : on_data_read(ec, FirstRequests)
  \/ \E ec \in WriteErrors(sock) : on_data_written(ec)
  \/ \E ec \in WriteErrors(sock) : on_file_written(ec)
  \/ \E ec \in WriteErrors(sock) : on_error_written(ec)
  \/ WsNext

SpecUpgrade == Init /\ [][UpgradeNext]_vars

----------------------------------------------------------------------------
(* The KMS screen backend, src/backends/screen/kms.cpp.  A resource state  *)
(* r holds the open descriptors (fds), the DRM objects obtained and not    *)
(* yet freed (objects) and the regions mapped (maps).  A call returns      *)
(* [ret, r].                                                               *)

Resources(fds, objects, maps) == [fds |-> fds, objects |-> objects, maps |-> maps]

KmsReturn(ret, r) == [ret |-> ret, r |-> r]

open(fd, r) == [r EXCEPT !.fds = @ \cup {fd}]
close(fd, r) == [r EXCEPT !.fds = @ \ {fd}]

Crtc(id) == [kind |-> "crtc", id |-> id]
Fb(id) == [kind |-> "fb", id |-> id]
Res(fd) == [kind |-> "resources", id |-> fd]

\* drmModeGetResources, drmModeGetCrtc and drmModeGetFB return an object the
\* caller has to free
drmModeGet(object, r) == [r EXCEPT !.objects = @ \cup {object}]

\* drmModeFreeResources, drmModeFreeCrtc, drmModeFreeFB
drmModeFree(object, r) == [r EXCEPT !.objects = @ \ {object}]

mmap(fd, r) == [r EXCEPT !.maps = @ \cup {fd}]

\* ~mmap_auto_free_t
munmap(fd, r) == [r EXCEPT !.maps = @ \ {fd}]

\* grab_frame_buffer, if (!crtc)
GrabNoCrtc(fd, r) == close(fd, r)

\* an if (!fb) that frees the CRTC and leaves the card open
GrabNoFb_card_left_open(fd, crtc, r) == drmModeFree(crtc, r)

\* grab_frame_buffer, if (!fb)
GrabNoFb(fd, crtc, r) == drmModeFree(crtc, close(fd, r))

\* grab_frame_buffer, if (ptr == MAP_FAILED)
GrabNoMap(fd, crtc, fb, r) == close(fd, drmModeFree(fb, drmModeFree(crtc, r)))

\* grab_frame_buffer from mmap_auto_free_t to the return, where auto_free
\* goes out of scope
GrabMapped(fd, crtc, fb, r) ==
  munmap(fd, close(fd, drmModeFree(crtc, drmModeFree(fb, r))))

\* grab_frame_buffer from drmModeGetFB on, the CRTC held in r
GrabFb(io, fd, crtc, fb, r) ==
  IF ~io.fb THEN KmsReturn(FALSE, GrabNoFb(fd, crtc, r))
  ELSE IF ~io.mmap THEN KmsReturn(FALSE, GrabNoMap(fd, crtc, fb, drmModeGet(fb, r)))
  ELSE KmsReturn(TRUE, GrabMapped(fd, crtc, fb, mmap(fd, drmModeGet(fb, r))))

\* grab_frame_buffer from drmModeGetCrtc on, the card open as fd in r
GrabCrtc(screen_id, io, fd, r) ==
  IF ~io.crtc THEN KmsReturn(FALSE, GrabNoCrtc(fd, r))
  ELSE GrabFb(io, fd, Crtc(screen_id), Fb(screen_id),
              drmModeGet(Crtc(screen_id), r))

\* kms_screen_t::grab_frame_buffer.  io tells which of open, drmModeGetCrtc,
\* drmModeGetFB and mmap succeed.
grab_frame_buffer(screen_id, io, r) ==
  IF ~io.open THEN KmsReturn(FALSE, r)
  ELSE GrabCrtc(screen_id, io, NewFd, open(NewFd, r))

\* the for loop of list_screens_impl over resources->crtcs: a null CRTC is
\* skipped, another one is recorded and freed
RECURSIVE ListCrtcs(_, _, _, _)
ListCrtcs(i, crtcs, screens, r) ==
  IF i > Len(crtcs) THEN KmsReturn(screens, r)
  ELSE IF crtcs[i].null THEN ListCrtcs(i + 1, crtcs, screens, r)
  ELSE ListCrtcs(i + 1, crtcs,
                 Append(screens, [id |-> i, valid_mode |-> crtcs[i].mode_valid]),
                 drmModeFree(Crtc(i), drmModeGet(Crtc(i), r)))

\* the end of list_screens_impl
ListEnd(fd, l) == KmsReturn(l.ret, close(fd, drmModeFree(Res(fd), l.r)))

\* list_screens_impl from drmModeGetResources on
ListResources(io, fd, r) ==
  IF ~io.resources THEN KmsReturn(<<>>, close(fd, r))
  ELSE ListEnd(fd, ListCrtcs(1, io.crtcs, <<>>, drmModeGet(Res(fd), r)))

\* kms_screen_t::list_screens_impl.  io tells whether open and
\* drmModeGetResources succeed and, for each CRTC of the card, whether
\* drmModeGetCrtc returns null or a CRTC with mode_valid 0 or 1.
list_screens_impl(io, r) ==
  IF ~io.open THEN KmsReturn(<<>>, r)
  ELSE ListResources(io, NewFd, open(NewFd, r))

\* what the system does during a capture: the calls after a failed one are
\* not made
GrabIo(open_, crtc, fb, mmap_) == [open |-> open_, crtc |-> crtc, fb |-> fb, mmap |-> mmap_]

GrabIos ==
  { GrabIo(FALSE, FALSE, FALSE, FALSE), GrabIo(TRUE, FALSE, FALSE, FALSE),
    GrabIo(TRUE, TRUE, FALSE, FALSE), GrabIo(TRUE, TRUE, TRUE, FALSE),
    GrabIo(TRUE, TRUE, TRUE, TRUE) }

ListIo(open_, resources, crtcs) ==
  [open |-> open_, resources |-> resources, crtcs |-> crtcs]

CrtcOutcomes ==
  {[null |-> TRUE, mode_valid |-> 0]}
  \cup {[null |-> FALSE, mode_valid |-> v] : v \in {0, 1}}

ListIos ==
  { ListIo(FALSE, FALSE, <<>>), ListIo(TRUE, FALSE, <<>>) }
  \cup { ListIo(TRUE, TRUE, crtcs) :
           crtcs \in UNION {[1..n -> CrtcOutcomes] : n \in 0..MaxCrtcs} }

\* the state a call of the screen backend leaves
KmsCalled(call, k) ==
  /\ drm' = [objects |-> k.r.objects, maps |-> k.r.maps, call |-> call,
             ret |-> k.ret]
  /\ open_fds' = k.r.fds

kms_grab_frame_buffer(screen_id, io) ==
  /\ proc = "running"
  /\ KmsCalled([op |-> "grab_frame_buffer", screen_id |-> screen_id, io |-> io],
               grab_frame_buffer(screen_id, io,
                                 Resources(open_fds, drm.objects, drm.maps)))
  /\ UNCHANGED <<evt, ws, files, build, backend, devices, accepting, sessions,
                 sock, pending, awaiting, last, proc>>

kms_list_screens_impl(io) ==
  /\ proc = "running"
  /\ KmsCalled([op |-> "list_screens_impl", screen_id |-> 0, io |-> io],
               list_screens_impl(io, Resources(open_fds, drm.objects, drm.maps)))
  /\ UNCHANGED <<evt, ws, files, build, backend, devices, accepting, sessions,
                 sock, pending, awaiting, last, proc>>

KmsNext ==
  \/ \E screen_id \in 0..MaxCrtcs : \E io \in GrabIos :
       kms_grab_frame_buffer(screen_id, io)
  \/ \E io \in ListIos : kms_list_screens_impl(io)

SpecKms == Init /\ [][KmsNext]_vars

----------------------------------------------------------------------------
(* The page-flip streamer of the KMS backend, src/backends/screen/kms.cpp  *)
(* and kms_page_flip.cpp.  A card is described by what libdrm returns for  *)
(* it: whether drmModeGetResources succeeds, its connectors (null, not     *)
(* connected, or connected with a current encoder_id and a list of         *)
(* encoders), its encoders (null, or with a crtc_id and the set of the     *)
(* positions y whose bit is set in possible_crtcs) and its CRTCs.  The id  *)
(* of a connector, an encoder or a CRTC is its position, from 1; the       *)
(* encoder_id and the crtc_id 0 name no object.                            *)

Enc(id) == [kind |-> "encoder", id |-> id]
Conn(id) == [kind |-> "connector", id |-> id]
Buf(i) == [kind |-> "buffer", id |-> i]

\* page_flip_drm_t: the fields the model follows.  mapped is the set of the
\* buffers whose mapped_memory is not null.
PageFlipData(crtc_id, connector_id, mapped, fd) ==
  [crtc_id |-> crtc_id, connector_id |-> connector_id, mapped |-> mapped,
   file_descriptor |-> fd]

PfReturn(ret, data, r) == [ret |-> ret, data |-> data, r |-> r]

\* what the process holds of the card: descriptors, libdrm objects, mappings,
\* framebuffers and dumb buffers, and the releases of something not held
PfResources(fds) ==
  [fds |-> fds, objects |-> {}, maps |-> {}, fbs |-> {}, dumbs |-> {},
   faults |-> {}]

Fault(op, arg, r) == [r EXCEPT !.faults = @ \cup {[op |-> op, arg |-> arg]}]

\* if (c && c->mode_valid), c the result of drmModeGetCrtc
CrtcValid(card, id) ==
  /\ id \in DOMAIN card.crtcs
  /\ ~card.crtcs[id].null
  /\ card.crtcs[id].mode_valid = 1

\* auto c = drmModeGetCrtc(..); if (c) drmModeFreeCrtc(c);
CrtcGetAndFree(card, id, r) ==
  IF id \in DOMAIN card.crtcs /\ ~card.crtcs[id].null
    THEN drmModeFree(Crtc(id), drmModeGet(Crtc(id), r))
    ELSE r

\* the loop over resources->crtcs of associate_connector_with_crtc, for an
\* encoder: the pair that is found returns at once and the CRTC is not freed
RECURSIVE AssocScanCrtcs(_, _, _, _, _)
AssocScanCrtcs(y, card, encoder, data, r) ==
  IF y > Len(card.crtcs) THEN PfReturn(FALSE, data, r)
  ELSE IF y \notin encoder.possible_crtcs
    THEN AssocScanCrtcs(y + 1, card, encoder, data, r)
  ELSE IF CrtcValid(card, y)
    THEN PfReturn(TRUE, [data EXCEPT !.crtc_id = encoder.crtc_id],
                  drmModeGet(Crtc(y), r))
  ELSE AssocScanCrtcs(y + 1, card, encoder, data, CrtcGetAndFree(card, y, r))

\* after the loop over the CRTCs for the encoder at position x
RECURSIVE AssocScanEncoders(_, _, _, _, _, _)
AssocScanned(s, x, card, index, fd) ==
  IF s.ret
    THEN PfReturn(TRUE, [s.data EXCEPT !.connector_id = index],
                  drmModeFree(Res(fd), drmModeFree(Conn(index),
                    drmModeFree(Enc(card.connectors[index].encoders[x]), s.r))))
    ELSE AssocScanEncoders(x + 1, card, index, fd, s.data,
           drmModeFree(Enc(card.connectors[index].encoders[x]), s.r))

\* the loop over connector->encoders
AssocScanEncoders(x, card, index, fd, data, r) ==
  IF x > Len(card.connectors[index].encoders) THEN PfReturn(FALSE, data, r)
  ELSE IF card.encoders[card.connectors[index].encoders[x]].null
    THEN AssocScanEncoders(x + 1, card, index, fd, data, r)
  ELSE AssocScanned(
         AssocScanCrtcs(1, card,
                        card.encoders[card.connectors[index].encoders[x]], data,
                        drmModeGet(Enc(card.connectors[index].encoders[x]), r)),
         x, card, index, fd)

\* if (connector->encoder_id): the CRTC of the current encoder
AssocCurrent(card, index, fd, data, r) ==
  IF card.connectors[index].encoder_id = 0
       \/ card.encoders[card.connectors[index].encoder_id].null
       \/ card.encoders[card.connectors[index].encoder_id].crtc_id = 0
    THEN PfReturn(FALSE, data, r)
  ELSE IF CrtcValid(card, card.encoders[card.connectors[index].encoder_id].crtc_id)
    THEN PfReturn(TRUE,
           [data EXCEPT
              !.crtc_id = card.encoders[card.connectors[index].encoder_id].crtc_id,
              !.connector_id = index],
           drmModeFree(Res(fd), drmModeFree(Conn(index), r)))
  ELSE PfReturn(FALSE, data,
         CrtcGetAndFree(card,
           card.encoders[card.connectors[index].encoder_id].crtc_id, r))

RECURSIVE AssocConnectors(_, _, _, _, _)
AssocAfterScan(s, index, card, fd) ==
  IF s.ret THEN s
  ELSE AssocConnectors(index + 1, card, fd, s.data,
                       drmModeFree(Conn(index), s.r))

AssocAfterCurrent(c, index, card, fd) ==
  IF c.ret THEN c
  ELSE AssocAfterScan(AssocScanEncoders(1, card, index, fd, c.data, c.r),
                      index, card, fd)

\* the loop over resources->connectors
AssocConnectors(index, card, fd, data, r) ==
  IF index > Len(card.connectors)
    THEN PfReturn(FALSE, data, drmModeFree(Res(fd), r))
  ELSE IF card.connectors[index].null
    THEN AssocConnectors(index + 1, card, fd, data, r)
  ELSE IF ~card.connectors[index].connected
    THEN AssocConnectors(index + 1, card, fd, data,
                         drmModeFree(Conn(index), drmModeGet(Conn(index), r)))
  ELSE AssocAfterCurrent(
         AssocCurrent(card, index, fd, data, drmModeGet(Conn(index), r)),
         index, card, fd)

associate_connector_with_crtc(card, fd, data, r) ==
  IF ~card.resources THEN PfReturn(FALSE, data, r)
  ELSE AssocConnectors(1, card, fd, data, drmModeGet(Res(fd), r))

\* DRM_IOCTL_MODE_CREATE_DUMB, drmModeAddFB and mmap for buffer i
CreateDumb(i, r) == [r EXCEPT !.dumbs = @ \cup {i}]
drmModeAddFB(i, r) == [r EXCEPT !.fbs = @ \cup {i}]

\* drmModeRmFB(file_descriptor, buffer_id): a fault on a descriptor that is
\* closed or for a framebuffer that is gone
drmModeRmFB(fd, i, r) ==
  IF fd \in r.fds /\ i \in r.fbs THEN [r EXCEPT !.fbs = @ \ {i}]
  ELSE Fault("drmModeRmFB", i, r)

\* DRM_IOCTL_MODE_DESTROY_DUMB
DestroyDumb(fd, i, r) ==
  IF fd \in r.fds /\ i \in r.dumbs THEN [r EXCEPT !.dumbs = @ \ {i}]
  ELSE Fault("DESTROY_DUMB", i, r)

\* munmap(buffer.mapped_memory, ..): a fault if the memory is not mapped
PfMunmap(i, r) ==
  IF Buf(i) \in r.maps THEN munmap(Buf(i), r) ELSE Fault("munmap", i, r)

\* close(file_descriptor): a fault if the descriptor is closed already
PfClose(fd, r) ==
  IF fd \in r.fds THEN close(fd, r) ELSE Fault("close", fd, r)

\* the system call of create_frame_buffers that fails for buffer i
FailAt(i, step) == [frame |-> i, step |-> step]

\* the loop of create_frame_buffers over the two buffers; fail is the call
\* that fails
RECURSIVE CreateFrames(_, _, _, _, _)
CreateFrames(i, fail, fd, data, r) ==
  IF i > 1 THEN PfReturn(TRUE, data, r)
  ELSE IF fail = FailAt(i, "CREATE_DUMB") THEN PfReturn(FALSE, data, r)
  ELSE IF fail = FailAt(i, "drmModeAddFB")
    THEN PfReturn(FALSE, data, DestroyDumb(fd, i, CreateDumb(i, r)))
  ELSE IF fail \in {FailAt(i, "MAP_DUMB"), FailAt(i, "mmap")}
    THEN PfReturn(FALSE, data,
           DestroyDumb(fd, i,
             drmModeRmFB(fd, i, drmModeAddFB(i, CreateDumb(i, r)))))
  ELSE CreateFrames(i + 1, fail, fd,
                    [data EXCEPT !.mapped = @ \cup {i}],
                    mmap(Buf(i), drmModeAddFB(i, CreateDumb(i, r))))

CreateAfterAssoc(a, fail, fd) ==
  IF ~a.ret THEN a ELSE CreateFrames(0, fail, fd, a.data, a.r)

create_frame_buffers(card, fail, fd, data, r) ==
  CreateAfterAssoc(associate_connector_with_crtc(card, fd, data, r), fail, fd)

\* the body of the loop of ~page_flip_drm_t for buffer i
DestroyBuffer(i, data, r) ==
  IF i \notin data.mapped THEN r
  ELSE DestroyDumb(data.file_descriptor, i,
         drmModeRmFB(data.file_descriptor, i, PfMunmap(i, r)))

\* page_flip_drm_t::~page_flip_drm_t
page_flip_drm_t_destroy(data, r) ==
  IF data.file_descriptor > 0
    THEN PfClose(data.file_descriptor,
                 DestroyBuffer(1, data, DestroyBuffer(0, data, r)))
    ELSE DestroyBuffer(1, data, DestroyBuffer(0, data, r))

\* page_flip_background_thread after create_frame_buffers: drmSetMaster,
\* drmModeSetCrtc, drmDropMaster and the first drmModePageFlip
BringUpSteps == <<"drmSetMaster", "drmModeSetCrtc", "drmDropMaster",
                  "drmModePageFlip">>

BringUpCreated(c, fail) ==
  IF ~c.ret \/ \E k \in DOMAIN BringUpSteps : fail = FailAt(0, BringUpSteps[k])
    THEN PfReturn(FALSE, c.data, page_flip_drm_t_destroy(c.data, c.r))
    ELSE PfReturn(TRUE, c.data, c.r)

\* page_flip_background_thread from open on; new page_flip_drm_t() has every
\* field 0
page_flip_bring_up(card, fail, r) ==
  IF fail = FailAt(0, "open") THEN PfReturn(FALSE, PageFlipData(0, 0, {}, 0), r)
  ELSE IF fail = FailAt(0, "drmGetCap")
    THEN PfReturn(FALSE, PageFlipData(0, 0, {}, 0), close(NewFd, open(NewFd, r)))
  ELSE BringUpCreated(
         create_frame_buffers(card, fail, NewFd,
                              PageFlipData(0, 0, {}, NewFd), open(NewFd, r)),
         fail)

NoFail == FailAt(0, "none")

NoCard == [resources |-> FALSE, connectors |-> <<>>, encoders |-> <<>>,
           crtcs |-> <<>>]

\* The state of the streamer.  pc: "off" before page_flip_background_thread,
\* "failed" after it returned without a streamer, "brought_up" when it is
\* about to start the thread, "streaming" from run() on.  data and r: the
\* page_flip_drm_t and what the process holds.  page_flip_drm: whether
\* m_pageFlipDrm points to a live object.  scanout: the buffer on the screen;
\* flip: the buffer of the flip that was requested and has not completed, -1
\* if none; last_target: the buffer of the last flip that completed; flips:
\* the page-flip events handled.  refs: the holders of a shared_ptr to the
\* handler, the pending wait on the descriptor ("wait"), the pending timer
\* ("timer"), cancelled timer waits whose completion has not run ("aborted")
\* and page_flip_drm_t::parent_resume.  mutex and reader: m_mutex and a
\* request handler in image().
PfOff ==
  [pc |-> "off", call |-> "none", card |-> NoCard, fail |-> NoFail,
   ret |-> FALSE, data |-> PageFlipData(0, 0, {}, 0), r |-> PfResources(StdFds),
   page_flip_drm |-> "none", activated_buffer |-> 0, scanout |-> -1,
   flip |-> -1, last_target |-> -1, flips |-> 0,
   handler |-> "none", streamDesc |-> FALSE, refs |-> {}, trapped |-> FALSE,
   mutex |-> "free",
   reader |-> [pc |-> "idle", index |-> 0, index_flip |-> 0, frame_flip |-> 0]]

\* the state page_flip_background_thread leaves: after the first
\* drmModePageFlip buffer 0 is on the screen (drmModeSetCrtc) and is the
\* target of the pending flip
BroughtUp(s, card, fail, b) ==
  IF b.ret
    THEN [s EXCEPT !.pc = "brought_up", !.call = "page_flip_background_thread",
                   !.card = card, !.fail = fail, !.ret = TRUE, !.data = b.data,
                   !.r = b.r, !.page_flip_drm = "alive", !.scanout = 0,
                   !.flip = 0]
    ELSE [s EXCEPT !.pc = "failed", !.call = "page_flip_background_thread",
                   !.card = card, !.fail = fail, !.ret = FALSE, !.data = b.data,
                   !.r = b.r]

page_flip_background_thread(card, fail) ==
  /\ evt.pc = "off"
  /\ evt' = BroughtUp(evt, card, fail, page_flip_bring_up(card, fail, evt.r))
  /\ UNCHANGED sessionVars

\* async_kms_page_flit_handler_t::run, in the thread that
\* page_flip_background_thread starts
run ==
  /\ evt.pc = "brought_up"
  /\ evt' = [evt EXCEPT !.pc = "streaming", !.call = "run", !.card = NoCard,
                        !.fail = NoFail, !.handler = "alive",
                        !.streamDesc = TRUE, !.refs = {"wait", "timer"}]
  /\ UNCHANGED sessionVars

\* m_streamDesc.reset(): the stream_descriptor owns the descriptor and closes it
StreamDescReset(s) ==
  IF s.streamDesc
    THEN [s EXCEPT !.streamDesc = FALSE,
                   !.r = PfClose(s.data.file_descriptor, s.r)]
    ELSE s

\* delete m_pageFlipDrm: the pointer is not set to null, and the delete of an
\* object that was deleted before is undefined: the process traps, or the
\* destructor runs on the freed object
DeleteOutcomes == {"trap", "destructor"}

DeletePageFlipDrm(s, outcome) ==
  IF s.page_flip_drm = "alive"
    THEN [s EXCEPT !.page_flip_drm = "deleted",
                   !.refs = @ \ {"parent_resume"},
                   !.r = page_flip_drm_t_destroy(s.data, s.r)]
  ELSE IF outcome = "trap"
    THEN [s EXCEPT !.trapped = TRUE, !.r = Fault("delete", 0, s.r)]
  ELSE [s EXCEPT !.r = page_flip_drm_t_destroy(s.data, Fault("delete", 0, s.r))]

\* async_kms_page_flit_handler_t::reset
reset(s, outcome) ==
  DeletePageFlipDrm(
    StreamDescReset([s EXCEPT !.refs = (@ \ {"timer"}) \cup
                                (IF "timer" \in @ THEN {"aborted"} ELSE {})]),
    outcome)

\* the last shared_ptr to the handler is gone: ~async_kms_page_flit_handler_t
Released(s, outcome) ==
  IF s.refs = {} /\ s.handler = "alive"
    THEN [reset(s, outcome) EXCEPT !.handler = "destroyed", !.refs = {}]
    ELSE s

\* set_next_timer: the pending wait is cancelled and a new one is started
SetNextTimer(s) ==
  [s EXCEPT !.refs = (@ \cup {"timer"}) \cup
                     (IF "timer" \in @ THEN {"aborted"} ELSE {})]

\* on_page_flip_occurred without the change of activated_buffer
on_page_flip_occurred_same_buffer(s, ret, outcome) ==
  IF ret # 0 THEN reset(s, outcome)
  ELSE SetNextTimer(
         [s EXCEPT !.flip = s.activated_buffer,
                   !.refs = (((@ \ {"timer"}) \cup
                             (IF "timer" \in @ THEN {"aborted"} ELSE {}))
                             \cup {"wait"})])

\* on_page_flip_occurred; ret is the result of drmModePageFlip
on_page_flip_occurred(s, ret, outcome) ==
  IF ret # 0
    THEN reset([s EXCEPT !.activated_buffer = IF @ = 0 THEN 1 ELSE 0], outcome)
    ELSE SetNextTimer(
           [s EXCEPT !.activated_buffer = IF @ = 0 THEN 1 ELSE 0,
                     !.flip = IF s.activated_buffer = 0 THEN 1 ELSE 0,
                     !.refs = (((@ \ {"timer"}) \cup
                               (IF "timer" \in @ THEN {"aborted"} ELSE {}))
                               \cup {"wait"})])

\* drmHandleEvent: the flip that was requested has completed, its buffer is
\* on the screen, and page_flip_callback calls parent_resume
drmHandleEvent(s, ret, outcome) ==
  on_page_flip_occurred(
    [s EXCEPT !.scanout = s.flip, !.last_target = s.flip, !.flip = -1,
              !.flips = @ + 1],
    ret, outcome)

\* on_ready_read: the wait on the descriptor completes, with an error or
\* because the event of the pending flip can be read
on_ready_read(ec, ret, outcome) ==
  /\ evt.pc = "streaming"
  /\ evt.handler = "alive" /\ ~evt.trapped
  /\ "wait" \in evt.refs
  /\ ec = 0 => evt.flip # -1 /\ evt.flips < MaxFlips
  /\ evt' = IF ec # 0
              THEN Released([evt EXCEPT !.call = "on_ready_read",
                                        !.refs = @ \ {"wait"}], outcome)
              ELSE Released(
                     drmHandleEvent(
                       [evt EXCEPT !.call = "on_ready_read",
                                   !.refs = (@ \ {"wait"}) \cup {"parent_resume"}],
                       ret, outcome), outcome)
  /\ UNCHANGED sessionVars

\* the completion of a wait on m_timer: after ten minutes set_next_timer runs
\* again; a cancelled wait only gives up its shared_ptr
on_timer(ec, outcome) ==
  /\ evt.pc = "streaming"
  /\ evt.handler = "alive" /\ ~evt.trapped
  /\ IF ec = "operation_aborted" THEN "aborted" \in evt.refs
     ELSE "timer" \in evt.refs
  /\ evt' = IF ec = "operation_aborted"
              THEN Released([evt EXCEPT !.call = "on_timer",
                                        !.refs = @ \ {"aborted"}], outcome)
              ELSE SetNextTimer([evt EXCEPT !.call = "on_timer",
                                            !.refs = @ \ {"timer"}])
  /\ UNCHANGED sessionVars

\* the io_context of get_io_context() is destroyed when the process exits:
\* the operations that are pending are destroyed with their handlers
io_context_destroy(outcome) ==
  /\ evt.pc = "streaming"
  /\ evt.handler = "alive" /\ ~evt.trapped
  /\ evt' = Released([evt EXCEPT !.call = "io_context_destroy",
                                 !.refs = @ \ {"wait", "timer", "aborted"}],
                     outcome)
  /\ UNCHANGED sessionVars

\* image() of the handler is declared in kms_page_flip.hpp with the m_mutex
\* it would take; the reader below is the one the specification describes: it
\* locks m_mutex, reads the active index, copies the frame and unlocks.
image_lock ==
  /\ evt.pc = "streaming"
  /\ evt.page_flip_drm = "alive" /\ ~evt.trapped
  /\ evt.mutex = "free"
  /\ evt' = [evt EXCEPT !.call = "image", !.mutex = "reader",
               !.reader = [pc |-> "locked", index |-> evt.activated_buffer,
                           index_flip |-> evt.flips, frame_flip |-> 0]]
  /\ UNCHANGED sessionVars

image_copy ==
  /\ evt.pc = "streaming"
  /\ evt.reader.pc = "locked" /\ ~evt.trapped
  /\ evt' = [evt EXCEPT !.call = "image", !.mutex = "free",
               !.reader = [@ EXCEPT !.pc = "done", !.frame_flip = evt.flips]]
  /\ UNCHANGED sessionVars

\* the cards: one encoder, up to two connectors of which the first is null or
\* not connected, MaxCrtcs CRTCs
PfEncoders ==
  {[null |-> TRUE, crtc_id |-> 0, possible_crtcs |-> {}]}
  \cup {[null |-> FALSE, crtc_id |-> c, possible_crtcs |-> p] :
          c \in 0..MaxCrtcs, p \in SUBSET (1..MaxCrtcs)}

PfConnected ==
  {[null |-> FALSE, connected |-> TRUE, encoder_id |-> e, encoders |-> es] :
     e \in {0, 1}, es \in {<<>>, <<1>>}}

PfUnusable ==
  {[null |-> n, connected |-> FALSE, encoder_id |-> 0, encoders |-> <<>>] :
     n \in BOOLEAN}

PfCards ==
  {NoCard}
  \cup {[resources |-> TRUE, connectors |-> cs, encoders |-> <<e>>, crtcs |-> crtcs] :
          cs \in {<<>>} \cup {<<c>> : c \in PfConnected \cup PfUnusable}
                 \cup {<<u, c>> : u \in PfUnusable, c \in PfConnected},
          e \in PfEncoders,
          crtcs \in [1..MaxCrtcs -> CrtcOutcomes]}

\* the call of the bring-up that fails
PfFails ==
  {NoFail, FailAt(0, "open"), FailAt(0, "drmGetCap")}
  \cup {FailAt(i, step) : i \in {0, 1},
          step \in {"CREATE_DUMB", "drmModeAddFB", "MAP_DUMB", "mmap"}}
  \cup {FailAt(0, BringUpSteps[k]) : k \in DOMAIN BringUpSteps}

\* the calls after create_frame_buffers are made for a card whose connector
\* was associated with a CRTC
PfFailsOf(card) ==
  IF associate_connector_with_crtc(card, NewFd, PageFlipData(0, 0, {}, NewFd),
                                   PfResources(StdFds)).ret
    THEN PfFails
    ELSE {NoFail, FailAt(0, "open"), FailAt(0, "drmGetCap")}

\* kms_screen_t::create_global_instance starts the bring-up once
create_global_instance ==
  /\ evt.pc = "off"
  /\ \E card \in PfCards : \E fail \in PfFailsOf(card) :
       page_flip_background_thread(card, fail)

PfInit == evt = PfOff /\ SessionOff

PfNext ==
  \/ create_global_instance
  \/ run
  \/ \E ec \in {0, 1} : \E ret \in {0, 1} : \E outcome \in DeleteOutcomes :
       on_ready_read(ec, ret, outcome)
  \/ \E ec \in {"expired", "operation_aborted"} : \E outcome \in DeleteOutcomes :
       on_timer(ec, outcome)
  \/ \E outcome \in DeleteOutcomes : io_context_destroy(outcome)
  \/ image_lock
  \/ image_copy

SpecPageFlip == PfInit /\ [][PfNext]_vars

----------------------------------------------------------------------------
(* Device discovery, src/arguments.cpp (src/unnamed/part_009).  The input  *)
(* is /proc/bus/input/devices: a block of lines for each input device,     *)
(* with the line N: Name="<name>" before the line S: Sysfs=<path>, whose   *)
(* path ends in input<id>.  A line is modelled by its tag and its value:   *)
(* the name, or <<id>> for the path.                                       *)

UpperCase ==
  <<"A", "B", "C", "D", "E", "F", "G", "H", "I", "J", "K", "L", "M", "N", "O",
    "P", "Q", "R", "S", "T", "U", "V", "W", "X", "Y", "Z">>

LowerCase ==
  <<"a", "b", "c", "d", "e", "f", "g", "h", "i", "j", "k", "l", "m", "n", "o",
    "p", "q", "r", "s", "t", "u", "v", "w", "x", "y", "z">>

tolower(ch) ==
  IF \E i \in DOMAIN UpperCase : UpperCase[i] = ch
    THEN LowerCase[CHOOSE i \in DOMAIN UpperCase : UpperCase[i] = ch]
    ELSE ch

\* utils::to_lower_string
to_lower_string(name) == [i \in DOMAIN name |-> tolower(name[i])]

\* name.find(word) != std::string::npos
Contains(name, word) == Occurrences(name, word) # {}

S_keyboard == <<"k", "e", "y", "b", "o", "a", "r", "d">>
S_mouse == <<"m", "o", "u", "s", "e">>
S_touchpad == <<"t", "o", "u", "c", "h", "p", "a", "d">>
S_touchinput == <<"t", "o", "u", "c", "h", "i", "n", "p", "u", "t">>

\* guess_device_type with a name in upper case left as it is
guess_device_type_case_sensitive(name) ==
  IF Contains(name, S_keyboard) THEN "keyboard"
  ELSE IF Contains(name, S_mouse) THEN "mouse"
  ELSE IF Contains(name, S_touchpad) THEN "trackpad"
  ELSE IF Contains(name, S_touchinput) THEN "touchscreen"
  ELSE "none"

guess_device_type(name) ==
  guess_device_type_case_sensitive(to_lower_string(name))

input_device_mapping_t(event_number, relevance, device_type) ==
  [event_number |-> event_number, relevance |-> relevance,
   device_type |-> device_type]

\* the comparison of sort_devices
DeviceLess(a, b) ==
  \/ a.event_number < b.event_number
  \/ a.event_number = b.event_number /\ a.relevance < b.relevance

RECURSIVE InsertDevice(_, _)
InsertDevice(d, list) ==
  IF list = <<>> THEN <<d>>
  ELSE IF DeviceLess(d, Head(list)) THEN <<d>> \o list
  ELSE <<Head(list)>> \o InsertDevice(d, Tail(list))

\* sort_devices: std::sort with DeviceLess
RECURSIVE sort_devices(_)
sort_devices(device_list) ==
  IF device_list = <<>> THEN <<>>
  ELSE InsertDevice(Head(device_list), sort_devices(Tail(device_list)))

DeviceTypes == {"keyboard", "mouse", "trackpad", "touchscreen"}

NoRelevance == [type \in DeviceTypes |-> 0]

\* the state of the loop of gather_evdev_device_information
Gather(generic_device_name, physical_input, device_list, relevance) ==
  [generic_device_name |-> generic_device_name,
   physical_input |-> physical_input, device_list |-> device_list,
   input_device_relevance |-> relevance]

\* the block under if (type != input_device_type_e::none), then the clear()
\* of both strings
Recognised(device_id, type, g) ==
  IF type = "none"
    THEN Gather(<<>>, <<>>, g.device_list, g.input_device_relevance)
    ELSE Gather(<<>>, <<>>,
                Append(g.device_list,
                       input_device_mapping_t(device_id,
                                              g.input_device_relevance[type] + 1,
                                              type)),
                [g.input_device_relevance EXCEPT ![type] = @ + 1])

\* the body of the loop once the line has set the name or the path
Paired(g) ==
  IF Len(g.physical_input) > 0 /\ Len(g.generic_device_name) > 0
    THEN Recognised(g.physical_input[1],
                    guess_device_type(g.generic_device_name), g)
    ELSE g

\* the body of the loop for a line
GatherLine(line, g) ==
  Paired(IF line.tag = "N" THEN [g EXCEPT !.generic_device_name = line.value]
         ELSE IF line.tag = "S" THEN [g EXCEPT !.physical_input = line.value]
         ELSE g)

RECURSIVE GatherLines(_, _)
GatherLines(lines, g) ==
  IF lines = <<>> THEN g ELSE GatherLines(Tail(lines), GatherLine(Head(lines), g))

\* rt_args.devices after the loop: reset when the list is empty, sorted else
GatherEnd(g) ==
  IF g.device_list = <<>> THEN [has_value |-> FALSE, value |-> <<>>]
  ELSE [has_value |-> TRUE, value |-> sort_devices(g.device_list)]

gather_evdev_device_information(lines) ==
  GatherEnd(GatherLines(lines, Gather(<<>>, <<>>, <<>>, NoRelevance)))

\* the lines of the blocks of /proc/bus/input/devices
RECURSIVE LinesOf(_)
LinesOf(blocks) ==
  IF blocks = <<>> THEN <<>>
  ELSE << [tag |-> "N", value |-> Head(blocks).name],
          [tag |-> "H", value |-> <<>>],
          [tag |-> "S", value |-> <<Head(blocks).id>>] >> \o LinesOf(Tail(blocks))

\* the names of the devices: one for each kind, one with two of the words,
\* one with none of them, and the name of a device that has none
DeviceNames ==
  { <<"A", "T", " ", "K", "e", "y", "b", "o", "a", "r", "d">>,
    <<"U", "S", "B", " ", "M", "o", "u", "s", "e">>,
    <<"T", "o", "u", "c", "h", "p", "a", "d">>,
    <<"T", "o", "u", "c", "h", "I", "n", "p", "u", "t">>,
    <<"m", "o", "u", "s", "e", " ", "k", "e", "y", "b", "o", "a", "r", "d">>,
    <<"t", "o", "u", "c", "h", "s", "c", "r", "e", "e", "n">>,
    <<>> }

DeviceIds == 0..MaxBlocks

\* the blocks of a system: devices with ids of their own, in any order
DeviceBlocks ==
  { b \in UNION {[1..n -> [name : DeviceNames, id : DeviceIds]] : n \in 0..MaxBlocks} :
      \A i, j \in DOMAIN b : i # j => b[i].id # b[j].id }

\* main with the option to guess the devices of an evdev system
evt_gather_evdev_device_information ==
  /\ evt.pc = "call" /\ evt.op = "gather_evdev_device_information"
  /\ evt' = [evt EXCEPT !.pc = "done",
                        !.ret = gather_evdev_device_information(LinesOf(evt.blocks))]
  /\ devices' = evt'.ret.value
  /\ UNCHANGED <<drm, files, ws, build, backend, open_fds, accepting, sessions,
                 sock, pending, awaiting, last, proc>>

DiscoveryInit ==
  /\ evt \in {[pc |-> "call", op |-> "gather_evdev_device_information",
               blocks |-> b, ret |-> [has_value |-> FALSE, value |-> <<>>]] :
               b \in DeviceBlocks}
  /\ SessionOff

DiscoveryNext == evt_gather_evdev_device_information

SpecDiscovery == DiscoveryInit /\ [][DiscoveryNext]_vars

----------------------------------------------------------------------------
(* Two gestures on one uinput device.  main (src/main.cpp) runs the        *)
(* io_context on several threads, so the handlers of two sessions run at   *)
(* the same time, and touch_impl, swipe_impl and text_impl of the uinput   *)
(* backend write to the descriptor of the device without a lock.  A        *)
(* thread writes the records of its gesture one write(2) at a time; the    *)
(* device takes each write as one input_event.  packet is what the device  *)
(* has received since the SYN_REPORT before the last one, each record with *)
(* the thread that wrote it; synced tells whether a SYN_REPORT came before *)
(* the packet.                                                             *)

Gesture(op, x, y, x2, y2, v, duration, key_codes) ==
  [op |-> op, x |-> x, y |-> y, x2 |-> x2, y2 |-> y2, v |-> v,
   duration |-> duration, key_codes |-> key_codes]

Gestures ==
  { Gesture("touch", 1, 2, 0, 0, 0, 1, <<>>),
    Gesture("swipe", 0, 0, 2, 2, 1, 0, <<>>),
    Gesture("text", 0, 0, 0, 0, 0, 0, <<"KEY_A", "KEY_B">>) }

\* the writes and the sleeps of touch_impl, swipe_impl and text_impl on the
\* descriptor fd, in their order, when no write fails
GestureLog(g, fd) ==
  IF g.op = "touch"
    THEN send_touch(g.x, g.y, g.duration, fd, IoState({fd}, 0, "trap")).st.log
  ELSE IF g.op = "swipe"
    THEN send_swipe(g.x, g.y, g.x2, g.y2, g.v, fd,
                    IoState({fd}, 0, "trap")).st.log
  ELSE send_text_event(g.key_codes, fd, IoState({fd}, 0, "trap")).st.log

IsSleep(r) == r.type = "SLEEP"

\* write(fd, &event, sizeof event) of thread t as the device sees it
device_write_torn(t, rec, packet) ==
  Append(packet, [thread |-> t, rec |-> [rec EXCEPT !.value = 0]])

device_write(t, rec, packet) ==
  IF packet # <<>> /\ IsSyn(packet[Len(packet)].rec)
    THEN <<[thread |-> t, rec |-> rec]>>
    ELSE Append(packet, [thread |-> t, rec |-> rec])

GesturesInit ==
  /\ evt \in {[pc |-> "gestures",
               logs |-> <<GestureLog(g1, UinputTouchFd),
                          GestureLog(g2, UinputTouchFd)>>,
               pos |-> <<0, 0>>, packet |-> <<>>, synced |-> FALSE] :
               g1 \in Gestures, g2 \in Gestures}
  /\ SessionOff

\* the next step of the gesture of thread t: a sleep, or one write
gesture_step(t) ==
  /\ evt.pc = "gestures"
  /\ evt.pos[t] < Len(evt.logs[t])
  /\ evt' = IF IsSleep(evt.logs[t][evt.pos[t] + 1])
              THEN [evt EXCEPT !.pos[t] = @ + 1]
              ELSE [evt EXCEPT
                      !.pos[t] = @ + 1,
                      !.packet = device_write(t, evt.logs[t][evt.pos[t] + 1], @),
                      !.synced = @ \/ (evt.packet # <<>>
                                       /\ IsSyn(evt.packet[Len(evt.packet)].rec))]
  /\ UNCHANGED sessionVars

GesturesNext == \E t \in {1, 2} : gesture_step(t)

SpecGestures == GesturesInit /\ [][GesturesNext]_vars

----------------------------------------------------------------------------
(* Properties of the input-event writer, checked under SpecEvt *)

TouchPressRecords(x, y, fd) ==
  << Rec(fd, "EV_ABS", "ABS_MT_TRACKING_ID", 100),
     Rec(fd, "EV_ABS", "ABS_MT_POSITION_X", x),
     Rec(fd, "EV_ABS", "ABS_MT_POSITION_Y", y),
     Rec(fd, "EV_KEY", "BTN_TOUCH", 1),
     Rec(fd, "EV_ABS", "ABS_X", x),
     Rec(fd, "EV_ABS", "ABS_Y", y),
     Rec(fd, "EV_SYN", "SYN_REPORT", 0) >>

TouchReleaseRecords(fd) ==
  << Rec(fd, "EV_ABS", "ABS_MT_TRACKING_ID", -1),
     Rec(fd, "EV_KEY", "BTN_TOUCH", 0),
     Rec(fd, "EV_SYN", "SYN_REPORT", 0) >>

TouchRecords(x, y, duration, fd) ==
  TouchPressRecords(x, y, fd)
    \o (IF duration > 0 THEN <<Sleep("s", duration)>> ELSE <<>>)
    \o TouchReleaseRecords(fd)

\* C9: send_touch(x, y, duration, fd) with every write succeeding returns
\* true and has written to fd, in order: tracking id 100, the MT position,
\* BTN_TOUCH=1, the ABS position, SYN_REPORT; then, after a sleep that happens
\* only if duration > 0, tracking id -1, BTN_TOUCH=0, SYN_REPORT.
C9_SendTouchSequence ==
  (evt.pc = "done" /\ evt.op = "touch" /\ EvtNoWriteFailed)
    => /\ evt.ok
       /\ evt.log = TouchRecords(evt.x, evt.y, evt.duration, evt.fd)

C9_Witness ==
  /\ evt.pc = "done" /\ evt.op = "touch" /\ EvtNoWriteFailed /\ evt.ok
  /\ evt.duration > 0 /\ evt.x # evt.y
  /\ Len(evt.log) = 11 /\ evt.log[8] = Sleep("s", evt.duration)

\* C10 as claimed: a successful swipe with velocity v >= 1 has written exactly
\* v + 2 SYN_REPORT records.
C10_SwipeSynCountClaimed ==
  (evt.pc = "done" /\ evt.op = "swipe" /\ evt.ok /\ evt.v >= 1)
    => Count(evt.log, IsSyn) = evt.v + 2

\* C10 as amended: a successful swipe with velocity v >= 1 has written exactly
\* v + 3 SYN_REPORT records: one for the header, v for the steps, one for the
\* last position and one for the footer.
C10_SwipeSynCount ==
  (evt.pc = "done" /\ evt.op = "swipe" /\ evt.ok /\ evt.v >= 1)
    => Count(evt.log, IsSyn) = evt.v + 3

C10_Witness ==
  /\ evt.pc = "done" /\ evt.op = "swipe" /\ evt.ok /\ evt.v = MaxVelocity
  /\ Count(evt.log, IsSyn) = MaxVelocity + 3

----------------------------------------------------------------------------
(* Properties of the dispatch of a request, checked under SpecDispatch, and *)
(* of the session, checked under Spec                                      *)

\* the last handler was on_data_read with a complete request: the request
\* reached handle_requests
Dispatched == last.h = "on_data_read" /\ last.ec = "ok"

Statuses(writes) == [i \in DOMAIN writes |-> writes[i].status]

\* C1: for every request that reaches dispatch and whatever the outcome of
\* its handler, the session starts exactly one response write; the runs in
\* which the process died during the request are left out.
C1_ExactlyOneResponseWrite ==
  (Dispatched /\ ~last.trap) => Len(last.writes) = 1

\* the routes of session_t::add_endpoint_interfaces by method, path, handler
RegisteredRoutes ==
  { <<"POST", S_move, "move_mouse_request_handler">>,
    <<"POST", S_button, "button_request_handler">>,
    <<"POST", S_touch, "touch_request_handler">>,
    <<"POST", S_swipe, "swipe_request_handler">>,
    <<"POST", S_key, "key_request_handler">>,
    <<"POST", S_text, "text_request_handler">>,
    <<"GET", S_screen, "screen_request_handler">> }

\* a registered path with '/' at its end, a query string, an encoded first
\* '/', and combinations of these
FormsOf(path) ==
  {p \o sl \o q : p \in {path, <<"%", "2", "F">> \o Tail(path)},
                  sl \in {<<>>, <<"/">>, <<"/", "/">>, <<"%", "2", "F">>},
                  q \in {<<>>, <<"?">> \o S_x1, <<"%", "3", "F">> \o S_x1}}

\* C2: a request for a registered (method, path) reaches the registered
\* handler whatever the number of '/' at the end of the path, with or without
\* a query string, URL-encoded or not, and for combinations of these.
C2_ResolverIgnoresForm ==
  \A route \in RegisteredRoutes :
    (/\ Dispatched /\ ~last.trap
     /\ last.request.method = route[1]
     /\ last.request.target \in FormsOf(route[2]))
      => last.route_callback = route[3]

S_screen_42 == S_screen \o <<"/">> \o S_42
S_screen_42_43 == S_screen_42 \o <<"/">> \o S_43

\* C3: GET /screen/42 and GET /screen/42/ reach the screenshot handler with
\* screen_number -> "42" in the query map; GET /screen reaches the handler of
\* the exact route, without screen_number, and its 200 is the screen list;
\* /screen/42/43, with or without '/' at its end, matches nothing and is
\* answered 404.
C3_ScreenNumberRoute ==
  (Dispatched /\ last.request.method = "GET") =>
    /\ last.request.target \in {S_screen_42, S_screen_42 \o <<"/">>} =>
         /\ last.route_callback = "screenshot_request_handler"
         /\ last.url_query = {<<S_screen_number, S_42>>}
    /\ last.request.target = S_screen =>
         /\ last.route_callback = "screen_request_handler"
         /\ ~MapHas(last.url_query, S_screen_number)
         /\ Statuses(last.writes) = <<200>> =>
              last.writes[1].message = "list_screens"
    /\ last.request.target \in {S_screen_42_43, S_screen_42_43 \o <<"/">>} =>
         /\ last.route_callback = "none"
         /\ last.writes = <<not_found>>

C3_Witness ==
  /\ Dispatched /\ build = "http" /\ last.request.method = "GET"
  /\ last.request.target = S_screen_42 \o <<"/">>
  /\ last.route_callback = "screenshot_request_handler"
  /\ MapGet(last.url_query, S_screen_number) = S_42

\* the route a request matches: the path is the decoded target up to '?'
RouteOf(request) ==
  LET decoded == decode_url(request.target)
      stripped == IF build = "ws" THEN pop_trailing_slashes(decoded) ELSE decoded
      path == IF stripped = <<>> THEN <<>> ELSE split_string_view(stripped, "?")[1]
      exact == get_rules(path)
  IN  IF path = <<>> THEN [found |-> FALSE]
      ELSE IF exact.found THEN exact
      ELSE get_special_rules(path, "benign")

NoDuplicates(seq) == \A i, j \in DOMAIN seq : seq[i] = seq[j] => i = j

\* C4: a dispatched request whose path matches no route, the target "/" and
\* paths made of slashes included, is answered 404; one that matches a route
\* is answered 200 with every verb of the route once in Allow when its verb is
\* OPTIONS, 405 when the route does not have its verb, and only otherwise is
\* the handler called.
C4_StatusDecision ==
  Dispatched =>
    LET route == RouteOf(last.request)
        verbs == route.rule.verbs
        method == last.request.method
    IN  IF ~route.found
          THEN last.route_callback = "none" /\ Statuses(last.writes) = <<404>>
        ELSE IF method = "OPTIONS"
          THEN /\ last.route_callback = "none"
               /\ Statuses(last.writes) = <<200>>
               /\ NoDuplicates(last.writes[1].allow)
               /\ {last.writes[1].allow[i] : i \in DOMAIN last.writes[1].allow}
                    = {verbs[i] : i \in DOMAIN verbs}
        ELSE IF \A i \in DOMAIN verbs : verbs[i] # method
          THEN last.route_callback = "none" /\ Statuses(last.writes) = <<405>>
        ELSE last.route_callback = route.rule.route_callback

JsonPaths == {S_move, S_button, S_touch, S_swipe, S_key, S_text}

\* C5: a POST to /move, /button, /touch, /swipe, /key or /text whose content
\* type is not application/json is answered 400 "invalid content-type", and
\* neither its handler nor the input backend is called.
C5_ContentTypeChecked ==
  (/\ Dispatched
   /\ last.request.method = "POST"
   /\ last.request.target \in JsonPaths
   /\ ~is_json_request(last.request))
    => /\ last.writes = <<bad_request("invalid content-type")>>
       /\ last.route_callback = "none"
       /\ last.call = NoCall

Reads(p) == p["read_header"] + p["read"]

\* C6: when a response write completes without error, the session arms the
\* next read of a request on its socket, which stays open, and no session is
\* created and no socket accepted in that step.
C6_KeepAliveStep ==
  (last'.h \in {"on_data_written", "on_file_written"} /\ last'.ec = "ok")
    => /\ Reads(pending') = Reads(pending) + 1
       /\ pending'["read_header"] >= pending["read_header"]
       /\ pending'["read"] >= pending["read"]
       /\ Total(pending') = Total(pending)
       /\ sock = "open" /\ sock' = "open"
       /\ sessions' = sessions

C6_KeepAlive == [][C6_KeepAliveStep]_vars

\* the write of a response has completed and the read of the next request
\* is the one operation in flight on the socket of the one session
C6_Witness ==
  /\ last.h = "on_data_written" /\ last.ec = "ok"
  /\ Reads(pending) = 1 /\ Total(pending) = 1
  /\ sessions = 1 /\ sock = "open" /\ ~awaiting

ReadFailure(l) == l.h \in {"on_header_read", "on_data_read"} /\ l.ec # "ok"

\* the read errors answered by closing the socket without a response:
\* end_of_stream and timeout in on_header_read, end_of_stream in the
\* on_data_read that completes the read of a whole request
SilentReadFailure(l) ==
  \/ l.h = "on_header_read" /\ l.ec \in {"end_of_stream", "timeout"}
  \/ l.h = "on_data_read" /\ build = "ws" /\ l.ec = "end_of_stream"

\* C7: end_of_stream or timeout on the header read closes the socket and
\* starts no write; every other failed read, the body limit included, starts
\* exactly one write, of a 500, whose completion closes the socket; no failed
\* read arms a read or calls a handler.
C7_ReadFailureStep ==
  /\ ReadFailure(last') =>
       /\ Reads(pending') = Reads(pending) - 1
       /\ last'.route_callback = "none" /\ last'.call = NoCall
       /\ open_fds' = open_fds
       /\ IF SilentReadFailure(last')
            THEN /\ last'.writes = <<>>
                 /\ sock' = "closed"
                 /\ Total(pending') = Total(pending) - 1
            ELSE /\ Statuses(last'.writes) = <<500>>
                 /\ pending'["write_close"] = pending["write_close"] + 1
                 /\ pending'["write"] = pending["write"]
                 /\ pending'["write_file"] = pending["write_file"]
  /\ pending'["write_close"] < pending["write_close"] => sock' = "closed"

ClaimedTouchRecords(x, y, fd) ==
  <<Rec(fd, "EV_SYN", "SYN_REPORT", 0)>>
    \o TouchPressRecords(x, y, fd) \o TouchReleaseRecords(fd)

IsRecord(r) == r.type # "SLEEP"

\* C8: a POST /touch answered 200 has written, in this order and on the
\* descriptor of the device chosen by event: SYN_REPORT, tracking id 100, the
\* MT position, BTN_TOUCH=1, the ABS position, SYN_REPORT, tracking id -1,
\* BTN_TOUCH=0, SYN_REPORT.
C8_TouchRecordsOnDevice ==
  (/\ Dispatched
   /\ last.route_callback = "touch_request_handler"
   /\ Statuses(last.writes) = <<200>>)
    => SelectSeq(last.log, IsRecord)
         = ClaimedTouchRecords(last.call.x, last.call.y, last.dev)

----------------------------------------------------------------------------
(* Properties of the writer and of the backends                            *)

IsTouchMajor(r) == r.type = "EV_ABS" /\ r.code = "ABS_MT_TOUCH_MAJOR"

\* the values of the ABS_MT_TOUCH_MAJOR records of a log, in order
TouchMajors(log) ==
  LET majors == SelectSeq(log, IsTouchMajor)
  IN  [i \in DOMAIN majors |-> majors[i].value]

\* C11 as claimed: a successful swipe with velocity v >= 1 has written the
\* touch-major values 2, 3, ..., v + 2, each once, and then the 0 of the
\* footer.
C11_SwipeMajorsClaimed ==
  (evt.pc = "done" /\ evt.op = "swipe" /\ evt.ok /\ evt.v >= 1)
    => TouchMajors(evt.log) = [i \in 1..(evt.v + 1) |-> i + 1] \o <<0>>

\* C11 as amended: a successful swipe with velocity v >= 1 has written the
\* touch-major values 2 (header), 2, 3, ..., v + 1 (steps), v + 2 (last
\* position) and then the 0 of the footer: 2 is written twice.
C11_SwipeMajors ==
  (evt.pc = "done" /\ evt.op = "swipe" /\ evt.ok /\ evt.v >= 1)
    => TouchMajors(evt.log)
         = <<SwipeMajorStart>> \o [i \in 1..(evt.v + 1) |-> i + 1] \o <<0>>

C11_Witness ==
  /\ evt.pc = "done" /\ evt.op = "swipe" /\ evt.ok /\ evt.v = 5
  /\ TouchMajors(evt.log) = <<2, 2, 3, 4, 5, 6, 7, 0>>

\* the last request was answered by an input handler that called op on the
\* backend, and the call returned or threw
BackendCalled(op) ==
  /\ Dispatched /\ last.call.op = op
  /\ ~last.trap

\* the records button(value, event) is to write on the descriptor fd
ButtonRecords(value, fd) ==
  << Rec(fd, "EV_ABS", "ABS_MT_TRACKING_ID",
         IF value # 0 THEN TouchTrackingId ELSE -1),
     Rec(fd, "EV_KEY", "BTN_TOUCH", value),
     Rec(fd, "EV_SYN", "SYN_REPORT", 0) >>

\* C12: button(value, event) on either backend writes the tracking id (100 if
\* value # 0, else -1), BTN_TOUCH = value and SYN_REPORT, in this order, on
\* the descriptor of the device selected by event, and returns success iff
\* the three writes succeed.
C12_ButtonRecordsOnDevice ==
  (BackendCalled("button") /\ ~last.threw)
    => /\ last.ok <=> last.log = ButtonRecords(last.call.value, last.dev)
       /\ \A i \in DOMAIN last.log :
            last.log[i] = ButtonRecords(last.call.value, last.dev)[i]

\* the trios text(key_codes, event) is to write on the descriptor fd, each
\* followed by the delay between keys
RECURSIVE TextRecords(_, _)
TextRecords(key_codes, fd) ==
  IF key_codes = <<>> THEN <<>>
  ELSE << Rec(fd, "EV_KEY", Head(key_codes), 1),
          Rec(fd, "EV_KEY", Head(key_codes), 0),
          Rec(fd, "EV_SYN", "SYN_REPORT", 0),
          Sleep("ms", TextKeySleepMs) >>
       \o TextRecords(Tail(key_codes), fd)

\* C13: a successful text operation with n key codes has written, on the
\* descriptor of the device selected by event, n trios (key down, key up,
\* SYN_REPORT), one per code in the order of the list, each followed by the
\* delay between keys; with an empty list it writes nothing and succeeds.
C13_TextTrios ==
  /\ (BackendCalled("text") /\ last.ok)
       => last.log = TextRecords(last.call.text, last.dev)
  /\ (BackendCalled("text") /\ ~last.threw /\ last.call.text = <<>>)
       => last.ok /\ last.log = <<>>

C13_Witness ==
  /\ BackendCalled("text") /\ last.ok
  /\ last.call.text = <<30, 48>>
  /\ Len(last.log) = 8 /\ last.log[4] = Sleep("ms", TextKeySleepMs)

\* the virtual device an event id names: 0 the mouse, 1 the keyboard, 2 the
\* touchscreen
UinputDeviceOf(event) ==
  CASE event = 0 -> UinputMouseFd
    [] event = 1 -> UinputKeyboardFd
    [] event = 2 -> UinputTouchFd

\* C14: on the uinput backend every operation with event id 0, 1 or 2 acts on
\* the mouse, the keyboard or the touchscreen device respectively: its
\* records are written to that device; with any other event id the operation
\* fails, the request is answered 400 and no record is written.
C14_UinputEventSelectsDevice ==
  (Dispatched /\ backend = "uinput" /\ last.call.op # "none" /\ ~last.trap)
    => IF last.call.event \in 0..2
         THEN /\ ~last.threw
              /\ \A i \in DOMAIN last.log :
                   IsRecord(last.log[i])
                     => last.log[i].fd = UinputDeviceOf(last.call.event)
         ELSE /\ last.threw
              /\ Statuses(last.writes) = <<400>>
              /\ last.log = <<>>

\* the backend call of the last request failed by a write(2) or an open(2)
\* that failed: it returned false or threw, and not for an event id that the
\* uinput backend does not know
BackendFailed ==
  /\ Dispatched /\ last.call.op # "none" /\ ~last.trap
  /\ ~last.ok
  /\ backend = "uinput" => last.call.event \in 0..2

\* C15: when the input backend fails for a well-formed request, by a failed
\* write or by a failed open of /dev/input/event<N>, the one response is a
\* 500.
C15_BackendFailureIs500 ==
  BackendFailed => Statuses(last.writes) = <<500>>

\* the positions of the device table that hold a device of the kind
OfKind(kind) == {i \in DOMAIN devices : devices[i].device_type = kind}

\* C16: a command without event gets the event number of the first device of
\* its kind in the device table; when the table is absent or has no device
\* of the kind the request is answered with an error and no record is
\* written; an event in the body is the one the backend is called with.
C16_EventFromDeviceTable ==
  (Dispatched /\ IsInputHandler(last.route_callback) /\ ~last.trap
     /\ last.request.body.t = "object")
    => LET json_root == last.request.body.f
           kind == InputHandlers[last.route_callback].kind
       IN  IF "event" \in DOMAIN json_root
             THEN last.call.op # "none"
                    => last.call.event = json_root["event"].v
           ELSE IF OfKind(kind) = {}
             THEN /\ Statuses(last.writes) = <<400>>
                  /\ last.log = <<>>
           ELSE last.call.op # "none"
                  => last.call.event = devices[Least(OfKind(kind))].event_number

\* a move without event on a system whose table has no mouse is answered 400
C16_Witness ==
  /\ Dispatched /\ last.route_callback = "move_mouse_request_handler"
  /\ last.request.body.t = "object"
  /\ "event" \notin DOMAIN last.request.body.f
  /\ devices = EvdevDevices
  /\ Statuses(last.writes) = <<400>> /\ last.log = <<>>

\* the keys an input handler requires of the body and the ones that are to
\* hold an integer
RequiredKeys(cb) ==
  LET h == InputHandlers[cb]
  IN  {h.ints[i] : i \in DOMAIN h.ints}
        \cup (IF h.op = "text" THEN {"text"} ELSE {})
        \cup (IF build = "http" THEN {"event"} ELSE {})

IntegerKeys(cb) ==
  {InputHandlers[cb].ints[i] : i \in DOMAIN InputHandlers[cb].ints} \cup {"event"}

IsInteger(val) == val.t = "int"

\* the body lacks a required key, or holds something that is no integer
\* where an integer is required
IllFormed(cb, json_root) ==
  \/ \E k \in RequiredKeys(cb) : k \notin DOMAIN json_root
  \/ \E k \in IntegerKeys(cb) \cap DOMAIN json_root : ~IsInteger(json_root[k])
  \/ /\ cb = "text_request_handler" /\ "text" \in DOMAIN json_root
     /\ \/ json_root["text"].t # "array"
        \/ \E i \in DOMAIN json_root["text"].a : ~IsInteger(json_root["text"].a[i])

\* C17: a request to an input route whose body lacks a required key, or
\* holds a non-integer where an integer is required, is answered with 400,
\* the backend is not called and no record is written.
C17_IllFormedBodyRejected ==
  (Dispatched /\ IsInputHandler(last.route_callback)
     /\ last.request.body.t = "object"
     /\ IllFormed(last.route_callback, last.request.body.f))
    => /\ Statuses(last.writes) = <<400>>
       /\ last.call = NoCall
       /\ last.log = <<>>

----------------------------------------------------------------------------
(* Properties of the WebSocket server, checked under SpecWs                *)

\* the last handler read a text frame whose type is none of the known ones
UnknownTypeRead ==
  /\ ws.pc = "open" /\ ws.h = "on_data_read" /\ ws.ec = "ok"
  /\ ws.frame.got_text /\ ws.frame.body.t = "object"
  /\ ws.frame.type \notin
       {"swipe", "stream", "screens", "text", "key", "touch", "button",
        "absent", "not_string"}

\* C18: after a text frame whose type is not a known one the server has
\* queued, and is writing, exactly one message: the object with request (the
\* frame), status "error" and message "unrecognized type in the message
\* sent"; the process runs on and the connection stays open.
C18_UnknownTypeAnswered ==
  UnknownTypeRead
    => /\ proc = "running"
       /\ ws.writes = 1
       /\ Len(ws.queue) = 1
       /\ ws.queue[1] = [request |-> ws.frame, status |-> "error",
                         message |-> "unrecognized type in the message sent"]

\* a step is the completion of a write
WriteCompletes == ws.pc = "open" /\ ws'.h = "write_to_wire" /\ ws'.writes < ws.writes

\* in every state at most one write is in flight, and none with a read
OneOperationInFlight(w) ==
  w.pc = "open" => w.writes <= 1 /\ ~(w.writes > 0 /\ w.reads > 0)

\* the messages leave in the order of the queue: a write that completes
\* without error has written the head, no other step writes, and no step
\* reorders the queue
WrittenInOrder ==
  /\ ws.pc = "open" /\ ~WriteCompletes
       => /\ ws'.wire = ws.wire
          /\ Len(ws'.queue) >= Len(ws.queue)
          /\ SubSeq(ws'.queue, 1, Len(ws.queue)) = ws.queue
  /\ WriteCompletes
       => /\ ws.queue # <<>>
          /\ ws'.queue = Tail(ws.queue)
          /\ ws'.wire = IF ws'.ec = "ok" THEN Append(ws.wire, Head(ws.queue))
                                         ELSE ws.wire

\* C19 as claimed: messages are written in the order they were queued, at
\* most one write is in flight and never with a read; when a write completes
\* the queue is not empty, its head is popped and exactly one read is armed.
C19_WriteQueueClaimedStep ==
  /\ OneOperationInFlight(ws')
  /\ WrittenInOrder
  /\ WriteCompletes => ws'.reads = ws.reads + 1 /\ ws'.writes = 0

C19_WriteQueueClaimed == [][C19_WriteQueueClaimedStep]_vars

\* C19 as amended: the same, but the read is armed only when the write
\* completed without error; after a failed write the head is popped and
\* nothing is armed.
C19_WriteQueueStep ==
  /\ OneOperationInFlight(ws')
  /\ WrittenInOrder
  /\ WriteCompletes
       => /\ ws'.writes = 0
          /\ ws'.reads = IF ws'.ec = "ok" THEN ws.reads + 1 ELSE ws.reads

C19_WriteQueue == [][C19_WriteQueueStep]_vars

\* two messages were written, the second after the first, and the read
\* after the second write is in flight
C19_Witness ==
  /\ ws.pc = "open" /\ ws.h = "write_to_wire" /\ ws.ec = "ok"
  /\ Len(ws.wire) = 2 /\ ws.wire[1] # ws.wire[2]
  /\ ws.queue = <<>> /\ ws.reads = 1 /\ ws.writes = 0

\* a step is the completion of a read with timeout
ReadTimesOut == ws.pc = "open" /\ ws'.h = "on_data_read" /\ ws'.ec = "timeout"

\* C20: when a read ends with timeout and the queue is not empty, the write
\* of its head, and nothing else, is started; when the queue is empty a read
\* is armed at once; either way the command loop goes on.
C20_TimeoutStep ==
  ReadTimesOut
    => /\ IF ws.queue # <<>>
            THEN /\ ws'.writes = ws.writes + 1
                 /\ ws'.reads = ws.reads - 1
            ELSE /\ ws'.writes = ws.writes
                 /\ ws'.reads = ws.reads
       /\ ws'.queue = ws.queue /\ ws'.wire = ws.wire
       /\ ws'.reads + ws'.writes = 1
       /\ proc' = "running"

C20_Timeout == [][C20_TimeoutStep]_vars

\* a read has timed out after a frame was answered, and the next read is in
\* flight
C20_Witness ==
  /\ ws.pc = "open" /\ ws.h = "on_data_read" /\ ws.ec = "timeout"
  /\ ws.frames = 1 /\ Len(ws.wire) = 1
  /\ ws.reads = 1 /\ ws.writes = 0 /\ proc = "running"

----------------------------------------------------------------------------
(* C21 *)

\* the read of the first request of a connection completes: the handler
\* before it is the one that accepted the connection (ws build) or the one
\* that read the header of the request (http build)
FirstRequestRead ==
  /\ last.h \in {"on_connection_accepted", "on_header_read"}
  /\ Total(pending) = 1
  /\ last'.h = "on_data_read" /\ last'.ec = "ok"

\* the session has handed its socket over and has no operation in flight
HandedOver == sock = "released" /\ Total(pending) = 0 /\ ws.pc # "off"

\* C21: in the WebSocket build, when the first request of a connection is an
\* upgrade to WebSocket, no route handler is dispatched and no response is
\* written, the socket is released to a new WebSocket server whose handshake
\* is pending, and the session has no operation in flight; from then on the
\* session arms no read and no write on the socket and does not shut it
\* down, whatever the WebSocket server does.
C21_UpgradeStep ==
  /\ (build = "ws" /\ FirstRequestRead /\ last'.request.upgrade)
       => /\ last'.route_callback = "none" /\ last'.call = NoCall
          /\ last'.writes = <<>>
          /\ ws' = WsRun
          /\ HandedOver'
  /\ HandedOver
       => /\ sock' = "released" /\ pending' = pending
          /\ last' = last \/ last'.h = "on_connection_accepted"

C21_Upgrade == [][C21_UpgradeStep]_vars

\* the first request of the connection was an upgrade, and the WebSocket
\* server has since answered a frame on the socket
C21_Witness ==
  /\ HandedOver /\ last.h = "on_data_read" /\ last.request.upgrade
  /\ ws.wire # <<>>

----------------------------------------------------------------------------
(* C22 *)

\* the paths of a capture or a listing that fail: the card is not opened,
\* drmModeGetResources, drmModeGetCrtc or drmModeGetFB returns null, or mmap
\* fails
KmsFailingPath(d) ==
  \/ d.call.op = "grab_frame_buffer" /\ d.ret = FALSE
  \/ /\ d.call.op = "list_screens_impl"
     /\ \/ ~d.call.io.open \/ ~d.call.io.resources
        \/ \E i \in DOMAIN d.call.io.crtcs : d.call.io.crtcs[i].null

\* C22: a capture or a listing of the KMS backend that takes a failing path
\* returns with the open descriptors, the DRM objects held and the regions
\* mapped that there were before the call.
C22_KmsFailureStep ==
  (drm' # drm /\ KmsFailingPath(drm'))
    => /\ open_fds' = open_fds
       /\ drm'.objects = drm.objects
       /\ drm'.maps = drm.maps

C22_KmsFailure == [][C22_KmsFailureStep]_vars

\* a capture whose mmap failed, after the card was opened and the CRTC and
\* the frame buffer were obtained
C22_Witness ==
  /\ drm.call.op = "grab_frame_buffer" /\ drm.ret = FALSE
  /\ drm.call.io.fb /\ ~drm.call.io.mmap
  /\ drm.objects = {} /\ drm.maps = {}

----------------------------------------------------------------------------
(* C23 *)

\* no response is being written: every request read has been answered
AllAnswered ==
  pending["write"] + pending["write_close"] + pending["write_file"] = 0

\* C23: once the requests read have been answered, no image file of a
\* screenshot request exists in the temporary directory, whether the file
\* was streamed, its write failed or it could not be opened.
C23_TempFileDeleted == AllAnswered => files.exist = {}

\* the files that exist and are not streamed
Left(f) == f.exist \ f.streaming

\* a file is left only by a send_file that could not open it, and the files
\* streamed are those of the send_file writes in flight
C23_LeftByOpenFailure ==
  [][/\ Cardinality(files'.streaming) = pending'["write_file"]
     /\ Left(files') # Left(files) =>
          /\ last'.h = "on_data_read"
          /\ last'.route_callback = "screenshot_request_handler"
          /\ last'.writes = <<server_error("unable to open file specified")>>]_vars

----------------------------------------------------------------------------
(* C24 *)

\* the kind of a device by the words in its lower-cased name, tested in the
\* order keyboard, mouse, touchpad, touchinput
KindOf(name) ==
  IF Contains(to_lower_string(name), S_keyboard) THEN "keyboard"
  ELSE IF Contains(to_lower_string(name), S_mouse) THEN "mouse"
  ELSE IF Contains(to_lower_string(name), S_touchpad) THEN "trackpad"
  ELSE IF Contains(to_lower_string(name), S_touchinput) THEN "touchscreen"
  ELSE "none"

\* the entries of the blocks whose device is recognised: the block i gets the
\* number of recognised blocks of its kind up to i as relevance
EntriesOf(blocks) ==
  { input_device_mapping_t(
      blocks[i].id,
      Cardinality({j \in 1..i : KindOf(blocks[j].name) = KindOf(blocks[i].name)}),
      KindOf(blocks[i].name)) :
    i \in {k \in DOMAIN blocks : KindOf(blocks[k].name) # "none"} }

Discovered == evt.pc = "done" /\ evt.op = "gather_evdev_device_information"

\* the table holds the entries of the recognised blocks, one each, ascending
\* by (event_number, relevance), and is absent when there is none
TableOf(blocks, ret) ==
  /\ ret.has_value = (EntriesOf(blocks) # {})
  /\ {ret.value[i] : i \in DOMAIN ret.value} = EntriesOf(blocks)
  /\ Len(ret.value) = Cardinality(EntriesOf(blocks))
  /\ \A i, j \in DOMAIN ret.value :
       i < j => ~DeviceLess(ret.value[j], ret.value[i])

\* C24: the table of device discovery has one entry for each block whose
\* lower-cased name contains keyboard, mouse, touchpad or touchinput, none for
\* another block, with the k-th device of a kind at relevance k, sorted
\* ascending by (event_number, relevance), and is absent when no device is
\* recognised.
C24_DiscoveryTable == Discovered => TableOf(evt.blocks, evt.ret)

\* the same for the systems whose devices all have a name
C24_NamedDevices ==
  (Discovered /\ \A i \in DOMAIN evt.blocks : evt.blocks[i].name # <<>>)
    => TableOf(evt.blocks, evt.ret)

----------------------------------------------------------------------------
(* C25 *)

\* the handlers whose completion lets the session read on
ArmsRead == {"on_connection_accepted", "on_header_read", "on_data_written",
             "on_file_written"}

\* C25: a session has at most one asynchronous operation in flight on its
\* socket, and a read is armed only by the accept of the connection, by the
\* header read that the read of the body follows, or by the completion of
\* the write of a response.
C25_SerializedStep ==
  /\ Total(pending') <= 1
  /\ Reads(pending') > Reads(pending) => last'.h \in ArmsRead

C25_Serialized == [][C25_SerializedStep]_vars

\* the operations in flight grow in number only when a connection is
\* accepted and when move_mouse_request_handler writes two responses, and a
\* read is armed only by the handlers of ArmsRead
C25_TwoWritesOfMove ==
  [][/\ Total(pending') > Total(pending) =>
          \/ last'.h = "on_connection_accepted"
          \/ /\ last'.h = "on_data_read"
             /\ last'.route_callback = "move_mouse_request_handler"
             /\ Statuses(last'.writes) = <<500, 200>>
     /\ Reads(pending') > Reads(pending) => last'.h \in ArmsRead]_vars

(* C26 *)

\* the callback chain of the session has ended: its socket is shut down, or
\* a completion returned without arming another operation
ChainEnded == sock = "closed" \/ (sock = "open" /\ Total(pending) = 0)

\* C26: once the socket of a session is shut down or an error has ended its
\* callback chain, and no operation of the session is in flight, no strong
\* reference to the session remains (in a process that is running).
C26_SessionDestroyed ==
  (proc = "running" /\ ChainEnded /\ Total(pending) = 0) => use_count = 0

(* C27 *)

Accepted(l) == l.h = "on_connection_accepted" /\ l.ec = "ok"

\* C27: a successfully accepted socket makes exactly one new session, whose
\* read is armed, and the accept is armed again in the same handler; sessions
\* are made by nothing else, and at most one accept is pending at any time.
C27_AcceptStep ==
  /\ Accepted(last') =>
       /\ sessions' = sessions + 1
       /\ accepting' = 1
       /\ sessions = 0 =>
            sock' = "open" /\ Reads(pending') = Reads(pending) + 1
  /\ sessions' # sessions => Accepted(last')
  /\ accepting' <= 1

C27_Accept == [][C27_AcceptStep]_vars

C27_Witness ==
  Accepted(last) /\ sessions = 1 /\ accepting = 1 /\ sock = "open"
    /\ Reads(pending) = 1

(* C28 *)

\* the last request called the backend and one of the write(2) calls of the
\* operation failed: calls is the number of write(2) calls the operation
\* made, failAt the one that failed
WriteFailed ==
  /\ Dispatched /\ last.call.op # "none" /\ ~last.trap
  /\ last.failAt \in 1..last.calls

\* C28: an input operation one of whose writes fails reports failure and
\* makes no further write: the failed write is the last write(2) call of the
\* operation, in both backends.
C28_NoWriteAfterFailure ==
  WriteFailed => ~last.ok /\ last.calls = last.failAt

\* the same for every operation but key and text of the evdev backend, which
\* check their sequence with QAD_CHECK_BOOL_ERR
C28_ButCheckedKeyAndText ==
  (WriteFailed /\ ~(backend = "evdev" /\ last.call.op \in {"key", "text"}))
    => ~last.ok /\ last.calls = last.failAt

\* key and text of the evdev backend report the failure by an exception
\* after the sequence has run a second time
C28_CheckedSequenceRunsAgain ==
  (WriteFailed /\ backend = "evdev" /\ last.call.op \in {"key", "text"})
    => last.threw /\ last.calls > last.failAt

(* C29 *)

\* the last request called an operation of the evdev backend, which returned
\* or threw
EvdevCalled ==
  Dispatched /\ backend = "evdev" /\ last.call.op # "none" /\ ~last.trap

\* C29: after an operation of the evdev backend, whether it succeeded, a
\* write failed, an exception left it or its open failed, the descriptor it
\* opened for /dev/input/event<N> is closed: the descriptors that are open
\* are those that were open before it.
C29_EvdevDescriptorClosed ==
  EvdevCalled => open_fds = StdFds

\* an operation that opened the device, failed in a write and was left by
\* the exception of QAD_CHECK_BOOL_ERR
C29_Witness ==
  /\ EvdevCalled /\ last.threw /\ last.dev = NewFd
  /\ last.failAt \in 1..last.calls
  /\ open_fds = StdFds

(* C30 *)

\* the descriptors the constructor of uinput_backend_t opened
UinputFds == {UinputKeyboardFd, UinputMouseFd, UinputTouchFd}

\* C30: on the uinput backend no request, whether its operation succeeds or
\* fails, closes one of the three descriptors opened at construction.
C30_UinputDescriptorsStayOpen ==
  (Dispatched /\ backend = "uinput" /\ ~last.trap) => UinputFds \subseteq open_fds

\* a descriptor of the uinput backend is closed only by a move, button,
\* touch or key that failed, and it is the one of the device of the event
C30_ClosedByFailedOperation ==
  (Dispatched /\ backend = "uinput" /\ ~last.trap
     /\ ~(UinputFds \subseteq open_fds))
    => /\ last.call.op \in {"move", "button", "touch", "key"}
       /\ ~last.ok /\ ~last.threw
       /\ open_fds = (StdFds \cup UinputFds) \ {last.dev}

(* C40 *)

\* an accept of the server has completed, with or without an error
AcceptCompleted(l) == l.h = "on_connection_accepted"

\* C40: after every completion of an accept, including one that reports an
\* error, a new accept is pending.
C40_AcceptRearmedStep == AcceptCompleted(last') => accepting' >= 1

C40_AcceptRearmed == [][C40_AcceptRearmedStep]_vars

\* the accept is pending after every completion without error
C40_RearmedUnlessError ==
  [][(AcceptCompleted(last') /\ last'.ec = "ok") => accepting' >= 1]_vars

(* C37 *)

\* the last request was a swipe whose handler called the backend
SwipeCalled ==
  /\ last.h = "on_data_read" /\ last.ec = "ok"
  /\ last.route_callback = "swipe_request_handler"
  /\ last.call.op = "swipe"

\* C37: a swipe request is answered for every velocity: the computation of
\* send_swipe is defined, the process lives on and the handler writes its
\* one response.
C37_SwipeAnswered ==
  SwipeCalled => ~last.trap /\ Len(last.writes) = 1

\* a swipe with a velocity other than 0 is answered
C37_AnsweredUnlessZero ==
  (SwipeCalled /\ last.call.v # 0) => ~last.trap /\ Len(last.writes) = 1

\* send_swipe itself returns for every velocity other than 0, negative ones
\* included (under SpecEvt)
C37_SendSwipeReturns ==
  (evt.pc = "done" /\ evt.op = "swipe" /\ evt.v # 0) => ~evt.trap

(* C38 *)

IsPositionX(r) == r.type = "EV_ABS" /\ r.code = "ABS_MT_POSITION_X"
IsPositionY(r) == r.type = "EV_ABS" /\ r.code = "ABS_MT_POSITION_Y"

\* the values of the ABS_MT_POSITION_X (ABS_MT_POSITION_Y) records of a log
PositionsX(log) ==
  LET xs == SelectSeq(log, IsPositionX) IN [i \in DOMAIN xs |-> xs[i].value]

PositionsY(log) ==
  LET ys == SelectSeq(log, IsPositionY) IN [i \in DOMAIN ys |-> ys[i].value]

\* every value of the sequence lies between a and b inclusive
Between(values, a, b) ==
  \A i \in DOMAIN values :
    /\ values[i] >= (IF a <= b THEN a ELSE b)
    /\ values[i] <= (IF a <= b THEN b ELSE a)

\* C38: a successful swipe with velocity v >= 1 writes the header position,
\* v step positions and the last position: every position lies between the
\* start and the end on each axis, the first is (x1, y1), step i is the start
\* plus i increments, and the last is (x2, y2).
C38_SwipePositions ==
  (evt.pc = "done" /\ evt.op = "swipe" /\ evt.ok /\ evt.v >= 1)
    => LET xs == PositionsX(evt.log)
           ys == PositionsY(evt.log)
       IN  /\ Len(xs) = evt.v + 2 /\ Len(ys) = evt.v + 2
           /\ Between(xs, evt.x, evt.x2) /\ Between(ys, evt.y, evt.y2)
           /\ xs[1] = evt.x /\ ys[1] = evt.y
           /\ \A i \in 0..(evt.v - 1) :
                /\ xs[i + 2] = evt.x + i * TruncDiv(evt.x2 - evt.x, evt.v)
                /\ ys[i + 2] = evt.y + i * TruncDiv(evt.y2 - evt.y, evt.v)
           /\ xs[Len(xs)] = evt.x2 /\ ys[Len(ys)] = evt.y2

\* a swipe over a distance of 1 on x, which 2 does not divide, and of 2 on y
C38_Witness ==
  /\ evt.pc = "done" /\ evt.op = "swipe" /\ evt.ok /\ evt.v = 2
  /\ evt.x = 0 /\ evt.x2 = 1 /\ evt.y = 2 /\ evt.y2 = 0
  /\ PositionsX(evt.log) = <<0, 0, 0, 1>>
  /\ PositionsY(evt.log) = <<2, 2, 1, 0>>

(* C39 *)

\* the step is the completion of a read that delivered a text frame
TextFrameRead ==
  /\ ws.pc = "open" /\ ws'.frames = ws.frames + 1
  /\ ws'.h = "on_data_read" /\ ws'.ec = "ok" /\ ws'.frame.got_text

\* C39: after every text frame, whatever its type, exactly one reply is
\* queued and its write is started, so that the completion of the write arms
\* the next read; the server lives on.
C39_FrameAnsweredStep ==
  TextFrameRead
    => /\ Len(ws'.queue) = Len(ws.queue) + 1
       /\ ws'.writes = ws.writes + 1
       /\ proc' = "running"

C39_FrameAnswered == [][C39_FrameAnsweredStep]_vars

\* a frame of type "stream" leaves the connection with no reply queued and
\* no operation in flight: nothing will run on it again
C39_StreamStalls ==
  [][(TextFrameRead /\ ws'.frame.body.t = "object"
        /\ ws'.frame.type = "stream")
       => /\ ws'.queue = ws.queue
          /\ ws'.reads = 0 /\ ws'.writes = 0
          /\ proc' = "running"]_vars

\* a frame that is answered with queue_error_message gets its one reply
C39_ErrorRepliesQueued ==
  [][(TextFrameRead /\ proc' = "running" /\ ws'.frame.type # "stream")
       => /\ Len(ws'.queue) = Len(ws.queue) + 1
          /\ ws'.writes = ws.writes + 1]_vars

(* C31 *)

\* page_flip_background_thread has returned
BringUpReturned == evt.call = "page_flip_background_thread"

\* the connector that was recorded took the CRTC of its current encoder
ByCurrentEncoder(card, data) ==
  /\ data.connector_id \in DOMAIN card.connectors
  /\ card.connectors[data.connector_id].encoder_id # 0
  /\ ~card.encoders[card.connectors[data.connector_id].encoder_id].null
  /\ CrtcValid(card,
       card.encoders[card.connectors[data.connector_id].encoder_id].crtc_id)

\* C31: when the page-flip bring-up returns, on its success path and on each
\* of its error paths, every object it obtained from libdrm (drmModeGetCrtc
\* among them) has been released exactly once, and on the error paths every
\* mapping too: nothing is still held and nothing was released twice.
C31_BringUpReleased ==
  BringUpReturned =>
    /\ evt.r.objects = {}
    /\ evt.r.faults = {}
    /\ ~evt.ret => evt.r.maps = {} /\ evt.r.fbs = {} /\ evt.r.dumbs = {}
                   /\ evt.r.fds = StdFds

\* what does hold: the bring-up releases nothing twice, its error paths
\* release every mapping, framebuffer, dumb buffer and the descriptor, and
\* the only object that stays is the CRTC of the scan over the encoders
C31_OnlyScannedCrtcStays ==
  BringUpReturned =>
    /\ evt.r.faults = {}
    /\ ~evt.ret => evt.r.maps = {} /\ evt.r.fbs = {} /\ evt.r.dumbs = {}
                   /\ evt.r.fds = StdFds
    /\ evt.r.objects # {} =>
         /\ ~ByCurrentEncoder(evt.card, evt.data)
         /\ \E y \in DOMAIN evt.card.crtcs :
              evt.r.objects = {Crtc(y)} /\ CrtcValid(evt.card, y)

\* a bring-up that took the CRTC of the current encoder holds no object
C31_CurrentEncoderReleased ==
  /\ BringUpReturned /\ evt.ret
  /\ ByCurrentEncoder(evt.card, evt.data)
  /\ evt.r.objects = {}

(* C34 *)

\* C34: when the bring-up has associated a connector with a CRTC, the
\* crtc_id it recorded names a CRTC of the card whose mode is valid, and the
\* connector_id names a connected connector.
C34_RecordedCrtcValid ==
  (BringUpReturned /\ evt.ret) =>
    /\ CrtcValid(evt.card, evt.data.crtc_id)
    /\ evt.data.connector_id \in DOMAIN evt.card.connectors
    /\ evt.card.connectors[evt.data.connector_id].connected

\* what does hold: the connector is a connected one, and the crtc_id is
\* valid when it was taken from the current encoder; the scan records the
\* crtc_id of the encoder, whatever CRTC it found
C34_ValidByCurrentEncoder ==
  (BringUpReturned /\ evt.ret) =>
    /\ evt.data.connector_id \in DOMAIN evt.card.connectors
    /\ evt.card.connectors[evt.data.connector_id].connected
    /\ ByCurrentEncoder(evt.card, evt.data) =>
         CrtcValid(evt.card, evt.data.crtc_id)
    /\ ~ByCurrentEncoder(evt.card, evt.data) =>
         \E x \in DOMAIN evt.card.connectors[evt.data.connector_id].encoders :
           evt.data.crtc_id =
             evt.card.encoders[
               evt.card.connectors[evt.data.connector_id].encoders[x]].crtc_id

\* the scan recorded a crtc_id that names no CRTC with a valid mode
C34_ScanRecordedOther ==
  /\ BringUpReturned /\ evt.ret
  /\ ~CrtcValid(evt.card, evt.data.crtc_id)

(* C32 *)

\* the streamer lives: m_pageFlipDrm has not been deleted
Streaming(s) == s.pc = "streaming" /\ s.page_flip_drm = "alive"

\* the active index is 0 or 1, moves to the other buffer with each page-flip
\* event that is handled and moves at no other time, and the flip that is
\* requested is for the buffer that was not the target of the flip before
IndexAlternates(s, t) ==
  /\ t.activated_buffer \in {0, 1}
  /\ t.flips # s.flips => t.activated_buffer = 1 - s.activated_buffer
  /\ t.flips = s.flips => t.activated_buffer = s.activated_buffer
  /\ (t.flip # -1 /\ t.last_target # -1) => t.flip # t.last_target

\* C32, as stated: the index alternates with each completed flip, each flip
\* is requested for the other buffer, and of the two frames one is scanning
\* out and the other is the target of the last flip that completed.
C32_OtherIsLastTargetStep ==
  (Streaming(evt) /\ Streaming(evt')) =>
    /\ IndexAlternates(evt, evt')
    /\ evt'.last_target # -1 => evt'.scanout # evt'.last_target

C32_AlternatesStep ==
  (Streaming(evt) /\ Streaming(evt')) =>
    /\ IndexAlternates(evt, evt')
    /\ evt'.last_target # -1 => evt'.scanout = evt'.last_target
    /\ (evt'.flip # -1 /\ evt'.last_target # -1) => evt'.flip # evt'.scanout

C33_SnapshotStep ==
  /\ evt'.activated_buffer # evt.activated_buffer => evt.mutex # "reader"
  /\ evt'.reader.pc = "done" => evt'.reader.index_flip = evt'.reader.frame_flip

C33_SnapshotUnderLock == [][C33_SnapshotStep]_vars

\* what does hold: the index is changed by on_page_flip_occurred only, which
\* leaves m_mutex as it is
C33_IndexChangedByFlipOnly ==
  [][evt'.activated_buffer # evt.activated_buffer
       => evt'.call = "on_ready_read" /\ evt'.mutex = evt.mutex]_vars

(* C35 *)

\* the page-flip state has been torn down: by the delete of a bring-up step
\* that failed, or by reset()
TornDown ==
  \/ evt.pc = "failed" /\ evt.fail \notin {FailAt(0, "open"), FailAt(0, "drmGetCap")}
  \/ evt.page_flip_drm = "deleted"
  \/ evt.handler = "destroyed"

\* everything of the page-flip state is released and no release was made
\* twice or on a descriptor that was closed
ReleasedOnce(s) ==
  /\ s.r.maps = {} /\ s.r.fbs = {} /\ s.r.dumbs = {}
  /\ s.r.fds = StdFds
  /\ s.r.faults = {}
  /\ ~s.trapped

\* C35: once the page-flip state is torn down, after a failed bring-up step,
\* after a failed flip and the destruction of the handler, or after a normal
\* destruction, both buffers are unmapped, both framebuffers removed, both
\* dumb buffers destroyed and the descriptor closed, each exactly once, and
\* nothing was used after its release.
C35_TeardownOnce == TornDown => ReleasedOnce(evt)

\* what does hold: the teardown of a failed bring-up step releases each
\* resource once, and every teardown unmaps both buffers and leaves the
\* descriptor closed
C35_FailedBringUpOnce ==
  /\ evt.pc = "failed" => ReleasedOnce(evt)
  /\ TornDown => evt.r.maps = {} /\ evt.r.fds = StdFds

(* C36 *)

\* the records thread t has written so far, in the order of its gesture
GestureWritten(t) ==
  SelectSeq(SubSeq(evt.logs[t], 1, evt.pos[t]), LAMBDA r : ~IsSleep(r))

\* the records of thread t in the packet
PacketOf(t) ==
  LET mine == SelectSeq(evt.packet, LAMBDA e : e.thread = t)
  IN  [i \in DOMAIN mine |-> mine[i].rec]

====
